---- MODULE Spec2Model ----
(***************************************************************************)
(* A state-machine model of the Brotli meta-block decoder of               *)
(* brotli/dec/decode.c (BrotliDecompress and its helpers).                 *)
(*                                                                         *)
(* The bit stream is the environment: every value the decoder reads from   *)
(* it (a size, a length, a Huffman symbol, a literal byte) is drawn from a *)
(* small set with \E, and every BrotliReadMoreInput / BrotliWrite call may *)
(* fail.  The decoder's own state (pos, the ring buffer, the distance      *)
(* ring, the previous bytes, the meta-block bookkeeping) is modelled as    *)
(* the code computes it.                                                   *)
(*                                                                         *)
(* Scaling.  The code's smallest window is 1 << 16 bytes and size_t is 64  *)
(* bits wide; the model keeps the code's arithmetic but runs it with a     *)
(* window of 1 << WindowBits bytes and a size_t of SizeTBits bits.  The    *)
(* 16 bytes of slack after the ring and the 16 bytes kept back from the    *)
(* largest backward distance are the code's own numbers.                   *)
(***************************************************************************)
EXTENDS Integers, Sequences, FiniteSets, TLC

VARIABLES
  pc,                 \* where BrotliDecompress is
  ok,                 \* int ok (line 618)
  decoded_size,       \* int64_t decoded_size (line 621)
  input_size_bits,    \* int input_size_bits (line 622)
  input_end,          \* int input_end (line 623)
  window_bits,        \* int window_bits (line 624)
  pos,                \* size_t pos (line 620)
  ringbuffer,         \* uint8_t* ringbuffer (line 628), ringbuffer_size + 16 bytes
  dist_rb,            \* int dist_rb[4] (line 632), indexed 0..3
  dist_rb_idx,        \* size_t dist_rb_idx (line 633)
  prev_byte1,         \* uint8_t prev_byte1 (line 635)
  prev_byte2,         \* uint8_t prev_byte2 (line 636)
  meta_block_len,     \* size_t meta_block_len (line 675)
  meta_block_end_pos, \* size_t meta_block_end_pos (line 676)
  insert_length,      \* int insert_length (line 795)
  copy_length,        \* int copy_length (line 796)
  distance_code,      \* int distance_code (line 797)
  distance,           \* int distance (line 798)
  j,                  \* int j (line 801), the insert loop's counter
  output,             \* the bytes the Output sink has accepted, in order
  produced,           \* history: the byte stored for each position 0..pos-1
  written,            \* history: the ring offsets stored to so far
  meta_start,         \* history: pos when the current meta-block began
  last_copy,          \* history: what the last copy command did
  read_unwritten,     \* history: some copy read a ring offset never stored to
  ncmds,              \* history: commands decoded so far (bounds the model)
  heap,               \* the heap blocks the decode owns (see Resources)
  hdr_i,              \* int i (line 619) in the meta-block header's loops
  nmeta,              \* history: meta-blocks begun so far (bounds the model)
  v,                  \* uint8_t* v of InverseMoveToFrontTransform, indexed from 0
  v_orig,             \* history: the vector before the forward transform
  mtf_stage,          \* which transforms v has been through
  num_block_types,    \* int num_block_types[3] (line 679), indexed 0..2
  block_type,         \* int block_type[3] (line 678), indexed 0..2
  block_type_rb,      \* int block_type_rb[6] (line 680), indexed 0..5
  block_type_rb_index, \* size_t block_type_rb_index[3] (line 681), indexed 0..2
  tree_type,          \* int tree_type of the last DecodeBlockType
  type_code,          \* int type_code of the last DecodeBlockType
  prev_block_type,    \* history: the block type before the present one
  dist_history,       \* history: the distances pushed so far, newest first
  window_flag,        \* history: the bit read at line 659, -1 if not read
  window_extra,       \* history: the 3 bits read at line 660, -1 if not read
  map_stage,          \* where DecodeContextMap is
  map_ok,             \* int ok of DecodeContextMap (line 459), its result
  context_map_size,   \* int context_map_size (line 455)
  num_htrees,         \* int *num_htrees (line 464)
  context_map,        \* uint8_t* *context_map (line 469), indexed from 0
  max_run_length_prefix, \* int max_run_length_prefix (line 478)
  map_i,              \* int i (line 479), the next index to store at
  map_run,            \* history: the zeros the last run symbol denoted
  map_overrun,        \* history: stores made at an index >= context_map_size
  map_mtf,            \* history: the inverse move-to-front step was applied
  hc_stage,           \* where ReadHuffmanCode / ReadHuffmanCodeLengths is
  alphabet_size,      \* int alphabet_size (line 229), num_symbols of line 151
  code_lengths,       \* uint8_t* code_lengths (line 234), indexed from 0
  num_symbols,        \* int num_symbols (line 253) of the simple code
  max_bits,           \* int max_bits (line 251)
  symbols,            \* int symbols[4] (line 252), indexed 0..3
  hc_i,               \* int i (line 249)
  tree_select,        \* history: the bit read at line 272, -1 if not read
  hc_overrun,         \* history: stores made at an index >= alphabet_size
  symbol,             \* int symbol (line 154)
  max_symbol,         \* int max_symbol (line 155)
  prev_code_len,      \* int prev_code_len (line 157)
  code_len,           \* int code_len (line 189), the last symbol decoded
  lengths_decoded,    \* history: the code length symbols decoded, in order
  max_symbol_limit,   \* history: max_symbol as the header set it (lines 173-184)
  block_length,       \* size_t block_length[3] (line 677), indexed 0..2
  block_type_trees,   \* HuffmanTree block_type_trees[3] (line 682): root_ of each
  block_len_trees,    \* HuffmanTree block_len_trees[3] (line 683): root_ of each
  hgroup,             \* HuffmanTreeGroup hgroup[3] (line 629), indexed 0..2
  group_stage,        \* where BrotliDecompress is with the tree groups
  group_i,            \* int i (line 619) in the loop of lines 781-786
  tree_i              \* int i (line 446) of HuffmanTreeGroupDecode

coreVars == << pc, ok, decoded_size, input_size_bits, input_end, window_bits, pos,
               ringbuffer, dist_rb, dist_rb_idx, prev_byte1, prev_byte2,
               meta_block_len, meta_block_end_pos, insert_length, copy_length,
               distance_code, distance, j, output, produced, written, meta_start,
               last_copy, read_unwritten, ncmds >>

\* The core variables other than pc, ok and input_end.
dataVars == << decoded_size, input_size_bits, window_bits, pos, ringbuffer,
               dist_rb, dist_rb_idx, prev_byte1, prev_byte2, meta_block_len,
               meta_block_end_pos, insert_length, copy_length, distance_code,
               distance, j, output, produced, written, meta_start, last_copy,
               read_unwritten, ncmds >>

\* The variables of the header's and the tables' decoders.
releaseVars == << heap, hdr_i, nmeta >>
mtfVars == << v, v_orig, mtf_stage >>
blockVars == << num_block_types, block_type, block_type_rb,
                block_type_rb_index, tree_type, type_code, prev_block_type >>
distVars == << dist_history >>
windowVars == << window_flag, window_extra >>
mapVars == << map_stage, map_ok, context_map_size, num_htrees, context_map,
              max_run_length_prefix, map_i, map_run, map_overrun, map_mtf >>
huffVars == << hc_stage, alphabet_size, code_lengths, num_symbols, max_bits,
               symbols, hc_i, tree_select, hc_overrun, symbol, max_symbol,
               prev_code_len, code_len, lengths_decoded, max_symbol_limit >>
lengthVars == << block_length, block_type_trees, block_len_trees >>
groupVars == << hgroup, group_stage, group_i, tree_i >>
auxVars == << releaseVars, mtfVars, blockVars, distVars, windowVars, mapVars,
              huffVars, lengthVars, groupVars >>

\* What each of the decoders' specifications leaves alone.
exceptRelease ==
  << mtfVars, blockVars, distVars, windowVars, mapVars, huffVars, lengthVars,
     groupVars >>
exceptMtf ==
  << releaseVars, blockVars, distVars, windowVars, mapVars, huffVars, lengthVars,
     groupVars >>
exceptBlock ==
  << releaseVars, mtfVars, distVars, windowVars, mapVars, huffVars, lengthVars,
     groupVars >>
exceptDist ==
  << releaseVars, mtfVars, blockVars, windowVars, mapVars, huffVars, lengthVars,
     groupVars >>
exceptWindow ==
  << releaseVars, mtfVars, blockVars, distVars, mapVars, huffVars, lengthVars,
     groupVars >>
exceptMap ==
  << releaseVars, mtfVars, blockVars, distVars, windowVars, huffVars, lengthVars,
     groupVars >>
exceptHuff ==
  << releaseVars, mtfVars, blockVars, distVars, windowVars, mapVars,
     lengthVars, groupVars >>
exceptLength ==
  << releaseVars, mtfVars, blockVars, distVars, windowVars, mapVars,
     huffVars, groupVars >>
exceptGroup ==
  << releaseVars, mtfVars, blockVars, distVars, windowVars, mapVars,
     huffVars, lengthVars >>

vars == << coreVars, auxVars >>

----------------------------------------------------------------------------
(* Bounds of the model. *)

\* log2 of the model's ring buffer (the code's smallest window is 1 << 16).
WindowBits == 5
\* Width of size_t in the model (64 in the code's x86-64 build).
SizeTBits == 10
\* Commands decoded in one run.
MaxCommands == 3
\* Meta-blocks begun in one run of the header's decoders.
MaxMetaBlocks == 2
\* Length of the vectors the move-to-front transforms are tried on.
MaxVectorLen == 3
MaxBlockTypes == 3
MaxSwitches == 3
MaxDistanceCommands == 4
MaxHTrees == 3
MaxRunLengthPrefix == 2

(* Program constants. *)

\* static const int kNumLiteralCodes = 256
kNumLiteralCodes == 256
\* #define NUM_DISTANCE_SHORT_CODES 16
NUM_DISTANCE_SHORT_CODES == 16
\* max_backward_distance = (1 << window_bits) - 16
kBackwardMargin == 16
\* malloc(ringbuffer_size + 16)
kRingBufferSlack == 16

----------------------------------------------------------------------------
(* Arithmetic. *)

RECURSIVE Pow2(_)
Pow2(n) == IF n <= 0 THEN 1 ELSE 2 * Pow2(n - 1)

\* A value as a size_t: reduced modulo 2^SizeTBits.
SizeT(x) == x % Pow2(SizeTBits)

Min(a, b) == IF a < b THEN a ELSE b

\* A byte of malloc'ed memory that was never stored to: it stands for every
\* value such a byte may hold, and is distinct from every literal symbol
\* 0 .. kNumLiteralCodes - 1.
Indeterminate == kNumLiteralCodes

\* The literal the stream holds for output position p.  The decoder only
\* stores and copies literal bytes, so the stream is taken to give every
\* position a byte of its own: a byte that ends at a wrong place shows.
LiteralAt(p) == p % kNumLiteralCodes

----------------------------------------------------------------------------
(* What the model draws from the bit stream. *)

\* DecodeSize: -1 (no size advertised), 0, or an advertised size.
DecodedSizes == {-1, 0, 3}

\* The window flag bit read at line 659 (a larger window is not enumerated).
WindowFlags == {0}

\* The stored meta-block length field (the length minus one).
MetaRawLengths == {0, 3, Pow2(WindowBits) + 3}

\* ReadInsertAndCopy: kInsertLengthPrefixCode gives every insert length >= 0,
\* kCopyLengthPrefixCode every copy length >= 2.
InsertLengths == {0, 1, 2}
CopyLengths == {2, 9, Pow2(WindowBits) - 3}

\* ReadCopyDistance: short codes (4: last - 1, 8: last - 3) and the direct
\* distances 1, 9, max_backward_distance and one more.  Code 0 (the last
\* distance) is the one ReadInsertAndCopy implies.
DistanceCodes ==
  {4, 8, 16, 24,
   NUM_DISTANCE_SHORT_CODES - 1 + Pow2(WindowBits) - kBackwardMargin,
   NUM_DISTANCE_SHORT_CODES + Pow2(WindowBits) - kBackwardMargin}

----------------------------------------------------------------------------
(* Stream header. *)

RECURSIVE LowestSetBit(_)
\* Line 651: n &~ (n - 1), the lowest set bit of a positive n.
LowestSetBit(n) == IF n % 2 = 1 THEN 1 ELSE 2 * LowestSetBit(n \div 2)

\* An adjustment that is never made.
NeverPowerOfTwo(n) == FALSE

\* Line 651: n == (n &~ (n - 1)).
IsPowerOfTwo(n) == n = LowestSetBit(n)

RECURSIVE BitLength(_)
BitLength(n) == IF n = 0 THEN 0 ELSE 1 + BitLength(n \div 2)

\* Lines 649-656: input_size_bits of a positive decoded_size, 0 otherwise.
InputSizeBits(size) ==
  IF size > 0
    THEN (IF IsPowerOfTwo(size) THEN -1 ELSE 0) + BitLength(size)
    ELSE 0

\* Lines 658-663, with the code's 16 scaled to WindowBits.
DecodeWindowBits(size, size_bits, flag, extra) ==
  IF (size < 0 \/ size_bits > WindowBits) /\ flag = 1
    THEN WindowBits + 1 + extra
    ELSE WindowBits

\* Largest value the meta-block length field can hold (lines 89-93, 102-106):
\* up to 7 nibbles without an advertised size, else whole bytes covering
\* input_size_bits.
MetaLengthFieldMax(size, size_bits) ==
  IF size < 0
    THEN Pow2(28) - 1
    ELSE IF size_bits > 0 THEN Pow2(8 * ((size_bits + 7) \div 8)) - 1 ELSE 0

\* A length decoder that leaves out the increments of lines 94 and 110.
DecodeMetaBlockLengthNoIncrement(size_bits, p, input_size, end, raw) ==
  IF input_size < 0
    THEN IF end = 1 THEN 0 ELSE SizeT(raw)
    ELSE IF end = 1 THEN SizeT(input_size - p) ELSE SizeT(raw)

\* DecodeMetaBlockLength, lines 79-113; raw is the stored length field.
DecodeMetaBlockLength(size_bits, p, input_size, end, raw) ==
  IF input_size < 0
    THEN IF end = 1 THEN 0 ELSE SizeT(raw + 1)
    ELSE IF end = 1 THEN SizeT(input_size - p) ELSE SizeT(raw + 1)

----------------------------------------------------------------------------
(* The ring buffer. *)

ringbuffer_size == Pow2(window_bits)
ringbuffer_mask == ringbuffer_size - 1
max_backward_distance == Pow2(window_bits) - kBackwardMargin
RingAlloc == ringbuffer_size + kRingBufferSlack

\* x & ringbuffer_mask for a size_t x (ringbuffer_size divides 2^SizeTBits).
Masked(x) == x % ringbuffer_size

\* The ringbuffer_size bytes BrotliWrite is given at a wrap, and the first n.
RingPrefix(r, n) == [i \in 1 .. n |-> r[i - 1]]

\* A flush placed after the wrap instead of at the ring's last byte.
AtRingStart(p) == Masked(p) = 0

\* Lines 846 and 929: the store at this position filled the ring.
AtRingEnd(p) == Masked(p) = ringbuffer_mask

----------------------------------------------------------------------------
(* Distances. *)

kDistanceShortCodeIndexOffset ==
  << 3, 2, 1, 0, 3, 3, 3, 3, 3, 3, 2, 2, 2, 2, 2, 2 >>
kDistanceShortCodeValueOffset ==
  << 0, 0, 0, 0, -1, 1, -2, 2, -3, 3, -1, 1, -2, 2, -3, 3 >>

\* A lookup that takes the ring entry without the ring's index.
TranslateShortCodesFromRingStart(code, rb, index) ==
  IF code < NUM_DISTANCE_SHORT_CODES
    THEN rb[kDistanceShortCodeIndexOffset[code + 1] % 4]
           + kDistanceShortCodeValueOffset[code + 1]
    ELSE code - NUM_DISTANCE_SHORT_CODES + 1

\* TranslateShortCodes, lines 390-400.
TranslateShortCodes(code, rb, index) ==
  IF code < NUM_DISTANCE_SHORT_CODES
    THEN rb[(index + kDistanceShortCodeIndexOffset[code + 1]) % 4]
           + kDistanceShortCodeValueOffset[code + 1]
    ELSE code - NUM_DISTANCE_SHORT_CODES + 1

\* A distance ring that also records a reused last distance.
PushDistanceAlways(rb, idx, code, dist) ==
  [rb |-> [rb EXCEPT ![idx % 4] = dist], idx |-> SizeT(idx + 1)]

\* Lines 883-886: the distance ring after a command with this distance code.
PushDistance(rb, idx, code, dist) ==
  IF code > 0
    THEN [rb |-> [rb EXCEPT ![idx % 4] = dist], idx |-> SizeT(idx + 1)]
    ELSE [rb |-> rb, idx |-> idx]

\* A bound that leaves out the clamp to pos.
MaxDistanceUnclamped(p) == max_backward_distance

\* Lines 889-892.
MaxDistance(p) == Min(p, max_backward_distance)

\* A validation that leaves out the end of the meta-block.
CopyRejectedByDistanceOnly(p, dist, len, end_pos) ==
  SizeT(dist) > MaxDistance(p)

\* Lines 894 and 901: the copy is refused.
CopyRejected(p, dist, len, end_pos) ==
  \/ SizeT(dist) > MaxDistance(p)
  \/ SizeT(p + len) > end_pos

----------------------------------------------------------------------------
(* Copies. *)

\* UNALIGNED_COPY64: load the eight bytes at src, then store them at dst.
\* (q is r, bound so that the ring is evaluated once.)
UnalignedCopy64(r, dst, src) ==
  CHOOSE stored \in
    {[i \in DOMAIN q |-> IF i >= dst /\ i < dst + 8 THEN q[src + (i - dst)]
                                                     ELSE q[i]] : q \in {r}} :
    TRUE

RECURSIVE CopyBlocks(_, _, _, _)
\* Lines 579-584 of IncrementalCopyFastPath.
CopyBlocks(r, dst, src, len) ==
  IF len > 0
    THEN CopyBlocks(UnalignedCopy64(r, dst, src), dst + 8, src + 8, len - 8)
    ELSE r

\* A fast path that copies in blocks without expanding the pattern.
IncrementalCopyWithoutExpansion(r, dst, src, len) ==
  CopyBlocks(r, dst, src, len)

RECURSIVE IncrementalCopyFastPath(_, _, _, _)
\* IncrementalCopyFastPath, lines 570-585.
IncrementalCopyFastPath(r, dst, src, len) ==
  IF src < dst /\ dst - src < 8
    THEN IncrementalCopyFastPath(UnalignedCopy64(r, dst, src),
                                 dst + (dst - src), src, len - (dst - src))
    ELSE CopyBlocks(r, dst, src, len)

\* A guard that bounds the source of the copy only.
FastPathGuardOnSource(src, dst, len) ==
  src + len <= ringbuffer_size

\* Lines 913-914: the guard of the x86-64 fast path.
FastPathGuard(src, dst, len) ==
  /\ src + len <= ringbuffer_size
  /\ dst + len < ringbuffer_size

\* Lines 915-920: the fast path's stores.
FastCopy(r, dst, src, len, dist) ==
  IF len <= 16 /\ dist >= 8
    THEN UnalignedCopy64(UnalignedCopy64(r, dst, src), dst + 8, src + 8)
    ELSE IncrementalCopyFastPath(r, dst, src, len)

\* UNALIGNED_COPY64: the offsets it loads from and stores to.
Copy64Offsets(dst, src) == (src .. src + 7) \cup (dst .. dst + 7)

RECURSIVE CopyBlocksOffsets(_, _, _)
\* Lines 579-584: the offsets the block loop touches.
CopyBlocksOffsets(dst, src, len) ==
  IF len > 0
    THEN Copy64Offsets(dst, src) \cup CopyBlocksOffsets(dst + 8, src + 8, len - 8)
    ELSE {}

RECURSIVE IncrementalCopyOffsets(_, _, _)
\* Lines 570-585: the offsets IncrementalCopyFastPath touches.
IncrementalCopyOffsets(dst, src, len) ==
  IF src < dst /\ dst - src < 8
    THEN Copy64Offsets(dst, src)
           \cup IncrementalCopyOffsets(dst + (dst - src), src,
                                       len - (dst - src))
    ELSE CopyBlocksOffsets(dst, src, len)

\* Lines 915-920: the offsets the fast path loads from and stores to.
FastCopyOffsets(dst, src, len, dist) ==
  IF len <= 16 /\ dist >= 8
    THEN Copy64Offsets(dst, src) \cup Copy64Offsets(dst + 8, src + 8)
    ELSE IncrementalCopyOffsets(dst, src, len)

RECURSIVE SlowCopy(_, _, _, _, _, _)
\* Lines 926-936: the byte loop; wfail says whether BrotliWrite fails.
SlowCopy(r, p, dist, n, out, wfail) ==
  IF n = 0
    THEN [ring |-> r, pos |-> p, output |-> out, ok |-> 1]
    ELSE LET r2 == CHOOSE stored \in
                     {[q EXCEPT ![Masked(p)] = q[Masked(p - dist)]] :
                        q \in {r}} : TRUE
         IN IF AtRingEnd(p)
              THEN IF wfail
                     THEN [ring |-> r2, pos |-> p, output |-> out, ok |-> 0]
                     ELSE SlowCopy(r2, SizeT(p + 1), dist, n - 1,
                                   out \o RingPrefix(r2, ringbuffer_size), wfail)
              ELSE SlowCopy(r2, SizeT(p + 1), dist, n - 1, out, wfail)

\* Lines 909-936: the copy of an accepted command.
DoCopy(r, p, dist, len, out, wfail) ==
  LET src == Masked(p - dist)
      dst == Masked(p)
  IN IF FastPathGuard(src, dst, len)
       THEN [ring |-> FastCopy(r, dst, src, len, dist), pos |-> SizeT(p + len),
             output |-> out, ok |-> 1]
       ELSE SlowCopy(r, p, dist, len, out, wfail)

\* Context bytes taken one position late.
PrevBytesOneLate(r, p) ==
  [b1 |-> r[Masked(p)], b2 |-> r[Masked(p - 1)]]

\* Lines 939-943: the two context bytes after a copy that left pos at p.
PrevBytesAfterCopy(r, p) ==
  [b1 |-> r[Masked(p - 1)], b2 |-> r[Masked(p - 2)]]

\* The ring offsets the len bytes of a copy at position p are stored to.
CopyOffsets(p, len) == {Masked(p + k) : k \in 0 .. len - 1}

\* Whether some byte of a copy is read from a ring offset that neither an
\* earlier command nor an earlier byte of this copy stored to.
ReadsUnwritten(p, dist, len, stored) ==
  \E k \in 0 .. len - 1 :
    /\ Masked(p + k - dist) \notin stored
    /\ Masked(p + k - dist) \notin CopyOffsets(p, k)

----------------------------------------------------------------------------
(* The initial state: BrotliDecompress is entered, nothing is allocated. *)

\* The heap blocks of the claims on release: the ring buffer (line 668),
\* context_modes (760), the two context maps (469), the three tree arrays of
\* HuffmanTreeGroupInit (433) and the six block-type and block-length trees
\* (ReadHuffmanCode at 728-730).
PerMetaBlockResources ==
  {"context_modes", "context_map", "dist_context_map",
   "hgroup0", "hgroup1", "hgroup2",
   "block_type_tree0", "block_type_tree1", "block_type_tree2",
   "block_len_tree0", "block_len_tree1", "block_len_tree2"}
Resources == {"ringbuffer"} \cup PerMetaBlockResources

\* No block allocated, every pointer NULL.
EmptyHeap ==
  [ptr |-> [r \in Resources |-> FALSE],
   allocated |-> [r \in Resources |-> 0],
   released |-> [r \in Resources |-> 0]]

\* The header decoders' variables before they run.
ReleaseIdle == heap = EmptyHeap /\ hdr_i = 0 /\ nmeta = 0

\* No vector is being transformed.
MtfIdle == v = << >> /\ v_orig = << >> /\ mtf_stage = "idle"

\* Lines 677-681: the block types at the start of a meta-block.
BlockIdle ==
  /\ num_block_types = [k \in 0 .. 2 |-> 0]
  /\ block_type = [k \in 0 .. 2 |-> 0]
  /\ block_type_rb = [k \in 0 .. 5 |-> k % 2]
  /\ block_type_rb_index = [k \in 0 .. 2 |-> 0]
  /\ tree_type = 0
  /\ type_code = 0
  /\ prev_block_type = [k \in 0 .. 2 |-> 0]

\* Line 632: nothing has been pushed on the distance ring.
DistIdle == dist_history = << >>

\* No window bit has been read.
WindowIdle == window_flag = -1 /\ window_extra = -1

\* DecodeContextMap has not been called.
MapIdle ==
  /\ map_stage = "idle"
  /\ map_ok = 1
  /\ context_map_size = 0
  /\ num_htrees = 0
  /\ context_map = << >>
  /\ max_run_length_prefix = 0
  /\ map_i = 0
  /\ map_run = 0
  /\ map_overrun = 0
  /\ map_mtf = FALSE

\* ReadHuffmanCode has not been called.
HuffIdle ==
  /\ hc_stage = "idle"
  /\ alphabet_size = 0
  /\ code_lengths = << >>
  /\ num_symbols = 0
  /\ max_bits = 0
  /\ symbols = [k \in 0 .. 3 |-> 0]
  /\ hc_i = 0
  /\ tree_select = -1
  /\ hc_overrun = 0
  /\ symbol = 0
  /\ max_symbol = 0
  /\ prev_code_len = 0
  /\ code_len = 0
  /\ lengths_decoded = << >>
  /\ max_symbol_limit = 0

\* Lines 677 and 682-683: no block length read, no block tree built.
LengthIdle ==
  /\ block_length = [k \in 0 .. 2 |-> 0]
  /\ block_type_trees = [k \in 0 .. 2 |-> "NULL"]
  /\ block_len_trees = [k \in 0 .. 2 |-> "NULL"]

\* Lines 703-706: no tree group has an array of trees (htrees is NULL, which
\* the model writes as the array of no slots).
NullGroups == [g \in 0 .. 2 |-> [num_htrees |-> 0, htrees |-> << >>]]
GroupIdle ==
  /\ hgroup = NullGroups
  /\ group_stage = "idle"
  /\ group_i = 0
  /\ tree_i = 0

AuxIdle ==
  /\ ReleaseIdle /\ MtfIdle /\ BlockIdle /\ DistIdle /\ WindowIdle /\ MapIdle
  /\ HuffIdle /\ LengthIdle /\ GroupIdle

\* The decoders' specifications start with the others' variables idle.
IdleExceptMtf ==
  /\ ReleaseIdle /\ BlockIdle /\ DistIdle /\ WindowIdle /\ MapIdle /\ HuffIdle
  /\ LengthIdle /\ GroupIdle
IdleExceptBlock ==
  /\ ReleaseIdle /\ MtfIdle /\ DistIdle /\ WindowIdle /\ MapIdle /\ HuffIdle
  /\ LengthIdle /\ GroupIdle
IdleExceptMap ==
  /\ ReleaseIdle /\ MtfIdle /\ BlockIdle /\ DistIdle /\ WindowIdle /\ HuffIdle
  /\ LengthIdle /\ GroupIdle

IdleExceptGroup ==
  /\ ReleaseIdle /\ MtfIdle /\ BlockIdle /\ DistIdle /\ WindowIdle /\ MapIdle
  /\ HuffIdle /\ LengthIdle

IdleExceptHuff ==
  /\ ReleaseIdle /\ MtfIdle /\ BlockIdle /\ DistIdle /\ WindowIdle /\ MapIdle
  /\ LengthIdle /\ GroupIdle

NoCopy == [kind |-> "none", pos |-> 0, distance |-> 0, len |-> 0,
           fast |-> FALSE]

\* The locals of BrotliDecompress at entry (lines 618-636).
LocalsAtEntry ==
  /\ pc = "entry"
  /\ ok = 1
  /\ decoded_size = 0
  /\ input_size_bits = 0
  /\ input_end = 0
  /\ window_bits = 0
  /\ pos = 0
  /\ ringbuffer = << >>
  /\ dist_rb = [i \in 0 .. 3 |-> << 4, 11, 15, 16 >>[i + 1]]
  /\ dist_rb_idx = 0
  /\ prev_byte1 = 0
  /\ prev_byte2 = 0
  /\ meta_block_len = 0
  /\ meta_block_end_pos = 0
  /\ insert_length = 0
  /\ copy_length = 0
  /\ distance_code = 0
  /\ distance = 0
  /\ j = 0
  /\ output = << >>
  /\ produced = << >>
  /\ written = {}
  /\ meta_start = 0
  /\ last_copy = NoCopy
  /\ read_unwritten = FALSE

\* No command has been decoded.
CoreIdle == LocalsAtEntry /\ ncmds = 0

Init == CoreIdle /\ AuxIdle

----------------------------------------------------------------------------
(* The steps of BrotliDecompress. *)

\* Lines 640-642: BrotliInitBitReader fails.
InitFails ==
  /\ pc = "entry"
  /\ pc' = "returned"
  /\ ok' = 0
  /\ UNCHANGED << decoded_size, input_size_bits, input_end, window_bits, pos,
                  ringbuffer, dist_rb, dist_rb_idx, prev_byte1, prev_byte2,
                  meta_block_len, meta_block_end_pos, insert_length,
                  copy_length, distance_code, distance, j, output, produced,
                  written, meta_start, last_copy, read_unwritten, ncmds >>
  /\ UNCHANGED auxVars

\* Lines 644-669: the stream header, the window, the ring buffer.
Begin ==
  /\ pc = "entry"
  /\ \E size \in DecodedSizes, flag \in WindowFlags :
       /\ decoded_size' = size
       /\ IF size = 0
            THEN /\ pc' = "returned"
                 /\ UNCHANGED << input_size_bits, window_bits, ringbuffer >>
            ELSE /\ pc' = "loop"
                 /\ input_size_bits' = InputSizeBits(size)
                 /\ window_bits' =
                      DecodeWindowBits(size, InputSizeBits(size), flag, 0)
                 /\ ringbuffer' =
                      [i \in 0 .. (Pow2(window_bits') + kRingBufferSlack - 1)
                         |-> Indeterminate]
  /\ UNCHANGED << ok, input_end, pos, dist_rb, dist_rb_idx, prev_byte1,
                  prev_byte2, meta_block_len, meta_block_end_pos,
                  insert_length, copy_length, distance_code, distance, j,
                  output, produced, written, meta_start, last_copy, read_unwritten, ncmds >>
  /\ UNCHANGED auxVars

\* Lines 710-714: no input left for the next meta-block header.
MetaBlockNoInputStep ==
  /\ pc = "loop"
  /\ input_end = 0 /\ ok = 1
  /\ ok' = 0
  /\ pc' = "End"
  /\ meta_start' = pos
  /\ meta_block_len' = 0
  /\ UNCHANGED << decoded_size, input_size_bits, input_end, window_bits, pos,
                  ringbuffer, dist_rb, dist_rb_idx, prev_byte1, prev_byte2,
                  meta_block_end_pos, insert_length, copy_length,
                  distance_code, distance, j, output, produced, written,
                  last_copy, read_unwritten, ncmds >>

MetaBlockNoInput == MetaBlockNoInputStep /\ UNCHANGED auxVars

\* Lines 674-792: the meta-block header.  header_ok = FALSE is a failure of
\* one of the header's decoders (lines 728-733, 749-753, 768-786).
MetaBlockHeaderStep(header_ok) ==
  /\ pc = "loop"
  /\ input_end = 0 /\ ok = 1
  /\ \E end \in {0, 1}, raw \in MetaRawLengths :
       /\ raw <= MetaLengthFieldMax(decoded_size, input_size_bits)
       /\ LET len == DecodeMetaBlockLength(input_size_bits, pos,
                                           decoded_size, end, raw)
          IN /\ input_end' = end
             /\ meta_block_len' = len
             /\ meta_start' = pos
             /\ IF len = 0
                  THEN /\ pc' = "End"
                       /\ UNCHANGED << ok, meta_block_end_pos >>
                  ELSE /\ meta_block_end_pos' = SizeT(pos + len)
                       /\ IF header_ok
                            THEN pc' = "command" /\ ok' = 1
                            ELSE pc' = "End" /\ ok' = 0
  /\ UNCHANGED << decoded_size, input_size_bits, window_bits, pos, ringbuffer,
                  dist_rb, dist_rb_idx, prev_byte1, prev_byte2, insert_length,
                  copy_length, distance_code, distance, j, output, produced,
                  written, last_copy, read_unwritten, ncmds >>

MetaBlockHeader ==
  \E header_ok \in BOOLEAN :
    MetaBlockHeaderStep(header_ok) /\ UNCHANGED auxVars

\* Line 794, false: the command loop is over.
CommandLoopExit ==
  /\ pc = "command"
  /\ ~(pos < meta_block_end_pos)
  /\ pc' = "End"
  /\ UNCHANGED << ok, decoded_size, input_size_bits, input_end, window_bits,
                  pos, ringbuffer, dist_rb, dist_rb_idx, prev_byte1,
                  prev_byte2, meta_block_len, meta_block_end_pos,
                  insert_length, copy_length, distance_code, distance, j,
                  output, produced, written, meta_start, last_copy, read_unwritten, ncmds >>
  /\ UNCHANGED auxVars

\* Lines 794-819: the next command's insert-and-copy symbol.  The input is
\* finite: after MaxCommands commands BrotliReadMoreInput finds no more.
ReadCommandStep(eof) ==
  /\ pc = "command"
  /\ pos < meta_block_end_pos
  /\ \E il \in InsertLengths, cl \in CopyLengths, dc \in {0, -1} :
       IF eof
         THEN /\ ok' = 0
              /\ pc' = "End"
              /\ UNCHANGED << insert_length, copy_length, distance_code, j,
                              ncmds >>
         ELSE /\ insert_length' = il
              /\ copy_length' = cl
              /\ distance_code' = dc
              /\ j' = 0
              /\ ncmds' = ncmds + 1
              /\ pc' = "insert"
              /\ ok' = ok
  /\ UNCHANGED << decoded_size, input_size_bits, input_end, window_bits, pos,
                  ringbuffer, dist_rb, dist_rb_idx, prev_byte1, prev_byte2,
                  meta_block_len, meta_block_end_pos, distance, output,
                  produced, written, meta_start, last_copy, read_unwritten >>

\* Whether BrotliReadMoreInput (line 804) may find the input at its end.
CommandEof == IF ncmds < MaxCommands THEN BOOLEAN ELSE {TRUE}

ReadCommand ==
  \E eof \in CommandEof : ReadCommandStep(eof) /\ UNCHANGED auxVars

\* Lines 820-853: one literal of the insert loop.
InsertLiteralStep(eof) ==
  /\ pc = "insert"
  /\ j < insert_length
  /\ \E b \in {LiteralAt(pos)}, wfail \in BOOLEAN :
       IF eof
         THEN /\ ok' = 0
              /\ pc' = "End"
              /\ UNCHANGED << pos, ringbuffer, prev_byte1, prev_byte2, j,
                              output, produced, written >>
         ELSE /\ prev_byte2' = prev_byte1
              /\ prev_byte1' = b
              /\ ringbuffer' = [ringbuffer EXCEPT ![Masked(pos)] = b]
              /\ written' = written \cup {Masked(pos)}
              /\ IF AtRingEnd(pos) /\ wfail
                   THEN /\ ok' = 0
                        /\ pc' = "End"
                        /\ UNCHANGED << pos, j, output, produced >>
                   ELSE /\ output' =
                             IF AtRingEnd(pos)
                               THEN output \o RingPrefix(ringbuffer',
                                                         ringbuffer_size)
                               ELSE output
                        /\ pos' = SizeT(pos + 1)
                        /\ produced' = Append(produced, b)
                        /\ j' = j + 1
                        /\ pc' = "insert"
                        /\ ok' = ok
  /\ UNCHANGED << decoded_size, input_size_bits, input_end, window_bits,
                  dist_rb, dist_rb_idx, meta_block_len, meta_block_end_pos,
                  insert_length, copy_length, distance_code, distance,
                  meta_start, last_copy, read_unwritten, ncmds >>

InsertLiteral ==
  \E eof \in BOOLEAN : InsertLiteralStep(eof) /\ UNCHANGED auxVars

\* Line 854: the meta-block is complete after the inserts; no copy.
InsertEndsMetaBlock ==
  /\ pc = "insert"
  /\ ~(j < insert_length)
  /\ pos = meta_block_end_pos
  /\ pc' = "End"
  /\ UNCHANGED << ok, decoded_size, input_size_bits, input_end, window_bits,
                  pos, ringbuffer, dist_rb, dist_rb_idx, prev_byte1,
                  prev_byte2, meta_block_len, meta_block_end_pos,
                  insert_length, copy_length, distance_code, distance, j,
                  output, produced, written, meta_start, last_copy, read_unwritten, ncmds >>
  /\ UNCHANGED auxVars

\* Lines 856-878: the distance code, read from the stream when the command
\* did not imply it.
ReadDistanceStep(eof) ==
  /\ pc = "insert"
  /\ ~(j < insert_length)
  /\ pos # meta_block_end_pos
  /\ IF distance_code < 0
       THEN \E code \in DistanceCodes :
              IF eof
                THEN ok' = 0 /\ pc' = "End" /\ UNCHANGED distance_code
                ELSE distance_code' = code /\ pc' = "copy" /\ ok' = ok
       ELSE pc' = "copy" /\ UNCHANGED << ok, distance_code >>
  /\ UNCHANGED << decoded_size, input_size_bits, input_end, window_bits, pos,
                  ringbuffer, dist_rb, dist_rb_idx, prev_byte1, prev_byte2,
                  meta_block_len, meta_block_end_pos, insert_length,
                  copy_length, distance, j, output, produced, written,
                  meta_start, last_copy, read_unwritten, ncmds >>

\* BrotliReadMoreInput (line 857) is called only when a distance is read.
ReadDistance ==
  \E eof \in (IF distance_code < 0 THEN BOOLEAN ELSE {FALSE}) :
    ReadDistanceStep(eof) /\ UNCHANGED auxVars

\* Lines 880-943: resolve the distance, validate the copy, copy.
CopyBytes ==
  /\ pc = "copy"
  /\ LET dist == TranslateShortCodes(distance_code, dist_rb, dist_rb_idx)
         pushed == PushDistance(dist_rb, dist_rb_idx, distance_code, dist)
     IN /\ distance' = dist
        /\ dist_rb' = pushed.rb
        /\ dist_rb_idx' = pushed.idx
        /\ IF CopyRejected(pos, dist, copy_length, meta_block_end_pos)
             THEN /\ ok' = 0
                  /\ pc' = "End"
                  /\ last_copy' = [kind |-> "rejected", pos |-> pos,
                                   distance |-> dist, len |-> copy_length,
                                   fast |-> FALSE]
                  /\ UNCHANGED << pos, ringbuffer, prev_byte1, prev_byte2,
                                  output, produced, written, read_unwritten >>
             ELSE \E wfail \in BOOLEAN :
                  \E c \in {DoCopy(ringbuffer, pos, dist, copy_length,
                                   output, wfail)} :
                    LET n == c.pos - pos
                        prev == PrevBytesAfterCopy(c.ring, c.pos)
                    IN /\ ringbuffer' = c.ring
                       /\ pos' = c.pos
                       /\ output' = c.output
                       /\ ok' = c.ok
                       /\ produced' =
                            produced \o [k \in 1 .. n |->
                                           c.ring[Masked(pos + k - 1)]]
                       /\ written' =
                            written \cup
                              CopyOffsets(pos, IF c.ok = 1 THEN n ELSE n + 1)
                       /\ last_copy' =
                            [kind |-> "copied", pos |-> pos,
                             distance |-> dist, len |-> copy_length,
                             fast |-> FastPathGuard(Masked(pos - dist),
                                                    Masked(pos), copy_length)]
                       /\ read_unwritten' =
                            (read_unwritten
                               \/ ReadsUnwritten(pos, dist, copy_length, written))
                       /\ IF c.ok = 1
                            THEN /\ prev_byte1' = prev.b1
                                 /\ prev_byte2' = prev.b2
                                 /\ pc' = "command"
                            ELSE /\ pc' = "End"
                                 /\ UNCHANGED << prev_byte1, prev_byte2 >>
  /\ UNCHANGED << decoded_size, input_size_bits, input_end, window_bits,
                  meta_block_len, meta_block_end_pos, insert_length,
                  copy_length, distance_code, j, meta_start, ncmds >>
  /\ UNCHANGED auxVars

\* Lines 945-954: the meta-block's cleanup, back to the loop test.
MetaBlockEnd ==
  /\ pc = "End"
  /\ pc' = "loop"
  /\ UNCHANGED << ok, decoded_size, input_size_bits, input_end, window_bits,
                  pos, ringbuffer, dist_rb, dist_rb_idx, prev_byte1,
                  prev_byte2, meta_block_len, meta_block_end_pos,
                  insert_length, copy_length, distance_code, distance, j,
                  output, produced, written, meta_start, last_copy, read_unwritten, ncmds >>
  /\ UNCHANGED auxVars

\* Lines 674 (false) and 956-960: the last bytes of the ring, and return.
Finish ==
  /\ pc = "loop"
  /\ ~(input_end = 0 /\ ok = 1)
  /\ \E wfail \in BOOLEAN :
       IF wfail
         THEN ok' = 0 /\ UNCHANGED output
         ELSE ok' = ok /\ output' = output \o RingPrefix(ringbuffer, Masked(pos))
  /\ pc' = "returned"
  /\ UNCHANGED << decoded_size, input_size_bits, input_end, window_bits, pos,
                  ringbuffer, dist_rb, dist_rb_idx, prev_byte1, prev_byte2,
                  meta_block_len, meta_block_end_pos, insert_length,
                  copy_length, distance_code, distance, j, produced, written,
                  meta_start, last_copy, read_unwritten, ncmds >>
  /\ UNCHANGED auxVars

Next ==
  \/ InitFails
  \/ Begin
  \/ MetaBlockNoInput
  \/ MetaBlockHeader
  \/ CommandLoopExit
  \/ ReadCommand
  \/ InsertLiteral
  \/ InsertEndsMetaBlock
  \/ ReadDistance
  \/ CopyBytes
  \/ MetaBlockEnd
  \/ Finish

Spec == Init /\ [][Next]_vars

\* BrotliDecompress is one sequential function: it keeps taking its next
\* step until it returns.
\* Its input holds one command fewer than MaxCommands: ncmds, which ReadCommand
\* counts against MaxCommands, starts at 1.
InitShortInput == LocalsAtEntry /\ ncmds = 1 /\ AuxIdle

FairSpec == InitShortInput /\ [][Next]_vars /\ WF_vars(Next)

----------------------------------------------------------------------------
(* The block lengths of the three categories (0: literals, 1: commands,    *)
(* 2: distances).  This specification is BrotliDecompress as above with    *)
(* block_length[3] and the roots of the block-type and block-length trees  *)
(* added: the header's loop over the categories (lines 723-740) and the    *)
(* three places of the command loop that count a block down and switch to  *)
(* the next block when the count is 0 (lines 809-813, 826-835, 862-870).   *)
(* ReadSymbol on a tree whose root_ is NULL is undefined; it dereferences  *)
(* the null pointer, which stops the process.                              *)

\* ReadBlockLength (lines 349-355): kBlockLengthPrefixCode gives every block
\* length >= 1.
BlockLengthsRead == {1, 2}

\* Lines 723-740 as far as the header got: the categories before failed_at
\* have their has-types bit read, and the trees of those with the bit set are
\* built (failed_at = 3: the whole loop ran).
TreesAfterHeader(has_types, failed_at) ==
  [k \in 0 .. 2 |->
     IF k < failed_at /\ has_types[k] THEN "built" ELSE "NULL"]

\* Lines 734 and 738: the first block's length in each category.
BlockLengthsAfterHeader(has_types, lens, meta_len) ==
  [k \in 0 .. 2 |-> IF has_types[k] THEN lens[k] ELSE meta_len]

\* Lines 809, 826, 862: the category's block is used up.
BlockEnds(k) == block_length[k] = 0

\* DecodeBlockType and ReadBlockLength have a tree to read the category's
\* symbols with.
HasBlockTrees(k) ==
  block_type_trees[k] # "NULL" /\ block_len_trees[k] # "NULL"

\* Lines 809-814, 826-838, 862-870: the next block's length when the block
\* is used up, and one element counted off the block.
CountBlock(k) ==
  IF BlockEnds(k)
    THEN \E len \in BlockLengthsRead :
           block_length' = [block_length EXCEPT ![k] = len - 1]
    ELSE block_length' = [block_length EXCEPT ![k] = @ - 1]

\* DecodeBlockType (line 526) hands ReadSymbol a tree that was never built.
NullTreeRead ==
  /\ pc' = "halted"
  /\ UNCHANGED << ok, input_end, dataVars, lengthVars >>

\* Lines 703-714.
LengthsMetaBlockNoInput ==
  /\ MetaBlockNoInputStep
  /\ block_length' = [k \in 0 .. 2 |-> 0]
  /\ block_type_trees' = [k \in 0 .. 2 |-> "NULL"]
  /\ block_len_trees' = [k \in 0 .. 2 |-> "NULL"]
  /\ UNCHANGED exceptLength

\* Lines 674-792 with the loop of lines 723-740.
LengthsMetaBlockHeader ==
  /\ \E header_ok \in BOOLEAN : MetaBlockHeaderStep(header_ok)
  /\ \E has_types \in [0 .. 2 -> BOOLEAN],
        lens \in [0 .. 2 -> BlockLengthsRead],
        failed_at \in 0 .. 3 :
       /\ \A k \in 0 .. 2 : ~has_types[k] => lens[k] = 1
       /\ IF meta_block_len' = 0
            THEN /\ failed_at = 0
                 /\ \A k \in 0 .. 2 : ~has_types[k]
                 /\ block_length' = [k \in 0 .. 2 |-> 0]
            ELSE IF pc' = "command"
              THEN /\ failed_at = 3
                   /\ block_length' =
                        BlockLengthsAfterHeader(has_types, lens,
                                                meta_block_len')
              ELSE /\ \A k \in 0 .. 2 : k > failed_at => ~has_types[k]
                   /\ failed_at < 3 => has_types[failed_at]
                   /\ block_length' =
                        [k \in 0 .. 2 |->
                           IF k < failed_at
                             THEN BlockLengthsAfterHeader(
                                    has_types, lens, meta_block_len')[k]
                             ELSE 0]
       /\ block_type_trees' = TreesAfterHeader(has_types, failed_at)
       /\ block_len_trees' = TreesAfterHeader(has_types, failed_at)
  /\ UNCHANGED exceptLength

\* Lines 794-819 with the command category's block (lines 809-814).
LengthsReadCommand ==
  /\ \E eof \in CommandEof :
       IF ~eof /\ pc = "command" /\ pos < meta_block_end_pos
               /\ BlockEnds(1) /\ ~HasBlockTrees(1)
         THEN NullTreeRead
         ELSE /\ ReadCommandStep(eof)
              /\ IF eof THEN UNCHANGED block_length ELSE CountBlock(1)
              /\ UNCHANGED << block_type_trees, block_len_trees >>
  /\ UNCHANGED exceptLength

\* Lines 820-853 with the literal category's block (lines 826-838).
LengthsInsertLiteral ==
  /\ \E eof \in BOOLEAN :
       IF ~eof /\ pc = "insert" /\ j < insert_length
               /\ BlockEnds(0) /\ ~HasBlockTrees(0)
         THEN NullTreeRead
         ELSE /\ InsertLiteralStep(eof)
              /\ IF eof THEN UNCHANGED block_length ELSE CountBlock(0)
              /\ UNCHANGED << block_type_trees, block_len_trees >>
  /\ UNCHANGED exceptLength

\* Lines 856-878 with the distance category's block (lines 862-870).
LengthsReadDistance ==
  /\ \E eof \in (IF distance_code < 0 THEN BOOLEAN ELSE {FALSE}) :
       IF ~eof /\ pc = "insert" /\ ~(j < insert_length)
               /\ pos # meta_block_end_pos /\ distance_code < 0
               /\ BlockEnds(2) /\ ~HasBlockTrees(2)
         THEN NullTreeRead
         ELSE /\ ReadDistanceStep(eof)
              /\ IF eof \/ distance_code >= 0
                   THEN UNCHANGED block_length
                   ELSE CountBlock(2)
              /\ UNCHANGED << block_type_trees, block_len_trees >>
  /\ UNCHANGED exceptLength

NextBlockLength ==
  \/ InitFails
  \/ Begin
  \/ LengthsMetaBlockNoInput
  \/ LengthsMetaBlockHeader
  \/ CommandLoopExit
  \/ LengthsReadCommand
  \/ LengthsInsertLiteral
  \/ InsertEndsMetaBlock
  \/ LengthsReadDistance
  \/ CopyBytes
  \/ MetaBlockEnd
  \/ Finish

SpecBlockLength == InitShortInput /\ [][NextBlockLength]_vars

----------------------------------------------------------------------------
(* A second specification, for the copy of one command in isolation.  It   *)
(* starts where a stream of one meta-block and one command stands after    *)
(* the command's insert_length literals (lines 820-853 run insert_length   *)
(* times from the start of the stream), and takes the copy step from       *)
(* every combination of position, distance and copy length.                *)

\* Positions, distances and copy lengths the copy is tried at.
CopyPositions == 1 .. (Pow2(WindowBits) + Pow2(WindowBits - 1))
CopyDistances == 1 .. (Pow2(WindowBits) - kBackwardMargin + 1)
CopyLengthRange == 2 .. (Pow2(WindowBits) - 1)

\* The ring after p literals: offset i holds the literal of the last
\* position below p that maps to it, if there is one.
RingAfterLiterals(p) ==
  [i \in 0 .. (Pow2(WindowBits) + kRingBufferSlack - 1) |->
     IF i < Pow2(WindowBits) /\ i < p
       THEN LiteralAt(((p - 1 - i) \div Pow2(WindowBits)) * Pow2(WindowBits) + i)
       ELSE Indeterminate]

InitCopy ==
  /\ pc = "insert"
  /\ ok = 1
  /\ decoded_size = -1
  /\ input_size_bits = 0
  /\ input_end = 0
  /\ window_bits = WindowBits
  /\ pos \in CopyPositions
  /\ ringbuffer = RingAfterLiterals(pos)
  /\ dist_rb = [i \in 0 .. 3 |-> << 4, 11, 15, 16 >>[i + 1]]
  /\ dist_rb_idx = 0
  /\ prev_byte1 = LiteralAt(pos - 1)
  /\ prev_byte2 = IF pos >= 2 THEN LiteralAt(pos - 2) ELSE 0
  /\ copy_length \in CopyLengthRange
  /\ meta_block_len = pos + copy_length
  /\ meta_block_end_pos = pos + copy_length
  /\ insert_length = pos
  /\ distance_code = -1
  /\ distance = 0
  /\ j = pos
  /\ produced = [k \in 1 .. pos |-> LiteralAt(k - 1)]
  /\ output = [k \in 1 .. (pos - (pos % Pow2(WindowBits))) |-> LiteralAt(k - 1)]
  /\ written = {i \in 0 .. (Pow2(WindowBits) - 1) : i < pos}
  /\ meta_start = 0
  /\ last_copy = NoCopy
  /\ read_unwritten = FALSE
  /\ ncmds = 1
  /\ AuxIdle

\* Lines 856-878 with a direct distance code (distance = code - 15).
ReadDirectDistance ==
  /\ pc = "insert"
  /\ distance_code < 0
  /\ \E d \in CopyDistances :
       distance_code' = NUM_DISTANCE_SHORT_CODES - 1 + d
  /\ pc' = "copy"
  /\ UNCHANGED << ok, decoded_size, input_size_bits, input_end, window_bits,
                  pos, ringbuffer, dist_rb, dist_rb_idx, prev_byte1,
                  prev_byte2, meta_block_len, meta_block_end_pos,
                  insert_length, copy_length, distance, j, output, produced,
                  written, meta_start, last_copy, read_unwritten, ncmds >>
  /\ UNCHANGED auxVars

NextCopy ==
  \/ ReadDirectDistance
  \/ CopyBytes

SpecCopy == InitCopy /\ [][NextCopy]_vars

----------------------------------------------------------------------------
(* A third specification: the heap blocks of BrotliDecompress.  It follows *)
(* the function from its entry through the meta-block header's decoders    *)
(* (lines 674-792) to the release at End and the return, with every        *)
(* failure point of the header; the command loop is one step that ends     *)
(* with or without an error.                                               *)

\* malloc, or a tree built by ReadHuffmanCode: the pointer is set.
Malloc(h, r) == [h EXCEPT !.ptr[r] = TRUE, !.allocated[r] = @ + 1]

\* free, or BrotliHuffmanTreeRelease, of each pointer of R: a NULL pointer
\* releases nothing, and the pointer keeps its value.
Free(h, R) ==
  [h EXCEPT !.released =
     [r \in Resources |->
        IF r \in R /\ h.ptr[r] THEN h.released[r] + 1 ELSE h.released[r]]]

\* Lines 688-691 and 703-708: the pointers of R are set to NULL.
SetNull(h, R) ==
  [h EXCEPT !.ptr = [r \in Resources |-> IF r \in R THEN FALSE ELSE h.ptr[r]]]

\* What End releases without the block-length trees.
ReleasedAtEndWithoutLengthTrees ==
  {"context_modes", "context_map", "dist_context_map",
   "hgroup0", "hgroup1", "hgroup2",
   "block_type_tree0", "block_type_tree1", "block_type_tree2"}

\* Lines 946-953: what End releases.
ReleasedAtEnd ==
  {"context_modes", "context_map", "dist_context_map",
   "hgroup0", "hgroup1", "hgroup2",
   "block_type_tree0", "block_type_tree1", "block_type_tree2",
   "block_len_tree0", "block_len_tree1", "block_len_tree2"}

BlockTypeTree(k) == << "block_type_tree0", "block_type_tree1",
                       "block_type_tree2" >>[k + 1]
BlockLenTree(k) == << "block_len_tree0", "block_len_tree1",
                      "block_len_tree2" >>[k + 1]

\* ReadHuffmanCode (lines 229-324) on a tree whose root_ is NULL: the tree is
\* built; or the call fails before BrotliHuffmanTreeBuildImplicit and leaves
\* the tree as it was; or the build fails and leaves a tree to release.
TreeOutcomes == {"built", "untouched", "build_failed"}
ReadHuffmanCode(h, r, outcome) ==
  IF outcome = "untouched" THEN h ELSE Malloc(h, r)

\* DecodeContextMap (lines 455-516): it fails before its malloc (460-463),
\* fails after it, or succeeds.
MapOutcomes == {"no_input", "failed", "decoded"}
DecodeContextMapHeap(h, r, outcome) ==
  IF outcome = "no_input" THEN h ELSE Malloc(h, r)

\* Lines 640-669: the entry, up to the ring buffer's malloc.
AllocateRing ==
  /\ pc = "entry"
  /\ \E init_ok \in BOOLEAN, size \in DecodedSizes :
       IF ~init_ok
         THEN pc' = "returned" /\ ok' = 0 /\ UNCHANGED heap
         ELSE IF size = 0
                THEN pc' = "returned" /\ ok' = 1 /\ UNCHANGED heap
                ELSE /\ pc' = "loop"
                     /\ ok' = ok
                     /\ heap' = Malloc(heap, "ringbuffer")
  /\ UNCHANGED << input_end, dataVars, hdr_i, nmeta, exceptRelease >>

\* Lines 674-722: the start of a meta-block, up to its length.
BeginMetaBlock ==
  /\ pc = "loop"
  /\ input_end = 0 /\ ok = 1
  /\ heap' = SetNull(heap, PerMetaBlockResources)
  /\ nmeta' = nmeta + 1
  /\ \E eof \in (IF nmeta < MaxMetaBlocks THEN BOOLEAN ELSE {TRUE}),
        end \in {0, 1}, empty \in BOOLEAN :
       IF eof
         THEN ok' = 0 /\ pc' = "End" /\ UNCHANGED << input_end, hdr_i >>
         ELSE /\ empty => end = 1
              /\ input_end' = end
              /\ ok' = ok
              /\ hdr_i' = 0
              /\ pc' = IF empty THEN "End" ELSE "block_trees"
  /\ UNCHANGED << dataVars, exceptRelease >>

\* Lines 723-740: the block-type and block-length trees of category hdr_i.
ReadBlockTrees ==
  /\ pc = "block_trees"
  /\ \E flag \in {0, 1}, t \in TreeOutcomes, l \in TreeOutcomes :
       LET h1 == SetNull(heap, {BlockTypeTree(hdr_i), BlockLenTree(hdr_i)})
           h2 == ReadHuffmanCode(h1, BlockTypeTree(hdr_i), t)
           h3 == IF t = "built"
                   THEN ReadHuffmanCode(h2, BlockLenTree(hdr_i), l)
                   ELSE h2
       IN IF flag = 1 /\ ~(t = "built" /\ l = "built")
            THEN /\ heap' = h3
                 /\ ok' = 0
                 /\ pc' = "End"
                 /\ UNCHANGED hdr_i
            ELSE /\ heap' = IF flag = 1 THEN h3 ELSE h1
                 /\ ok' = ok
                 /\ hdr_i' = hdr_i + 1
                 /\ pc' = IF hdr_i + 1 < 3 THEN "block_trees"
                                           ELSE "context_modes"
  /\ UNCHANGED << input_end, dataVars, nmeta, exceptRelease >>

\* Lines 749-764: the distance parameters and context_modes.
ReadContextModes ==
  /\ pc = "context_modes"
  /\ \E eof \in BOOLEAN :
       IF eof
         THEN ok' = 0 /\ pc' = "End" /\ UNCHANGED heap
         ELSE /\ heap' = Malloc(heap, "context_modes")
              /\ ok' = ok
              /\ pc' = "context_maps"
  /\ UNCHANGED << input_end, dataVars, hdr_i, nmeta, exceptRelease >>

\* Lines 768-774: the two context maps.
DecodeContextMaps ==
  /\ pc = "context_maps"
  /\ \E lit \in MapOutcomes, dist \in MapOutcomes :
       LET h1 == DecodeContextMapHeap(heap, "context_map", lit)
           h2 == IF lit = "decoded"
                   THEN DecodeContextMapHeap(h1, "dist_context_map", dist)
                   ELSE h1
       IN /\ heap' = h2
          /\ IF lit = "decoded" /\ dist = "decoded"
               THEN ok' = ok /\ pc' = "tree_groups"
               ELSE ok' = 0 /\ pc' = "End"
  /\ UNCHANGED << input_end, dataVars, hdr_i, nmeta, exceptRelease >>

\* Lines 776-786: the three tree groups.
DecodeTreeGroups ==
  /\ pc = "tree_groups"
  /\ heap' = Malloc(Malloc(Malloc(heap, "hgroup0"), "hgroup1"), "hgroup2")
  /\ \E decoded \in BOOLEAN :
       IF decoded
         THEN ok' = ok /\ pc' = "command_loop"
         ELSE ok' = 0 /\ pc' = "End"
  /\ UNCHANGED << input_end, dataVars, hdr_i, nmeta, exceptRelease >>

\* Lines 794-944: the command loop, to its end or to an error.
RunCommands ==
  /\ pc = "command_loop"
  /\ \E failed \in BOOLEAN : ok' = IF failed THEN 0 ELSE ok
  /\ pc' = "End"
  /\ UNCHANGED << input_end, dataVars, heap, hdr_i, nmeta, exceptRelease >>

\* Lines 945-954: End.
ReleaseMetaBlock ==
  /\ pc = "End"
  /\ heap' = Free(heap, ReleasedAtEnd)
  /\ pc' = "loop"
  /\ UNCHANGED << ok, input_end, dataVars, hdr_i, nmeta, exceptRelease >>

\* Lines 674 (false) and 956-960: the last write, free(ringbuffer), return.
ReleaseRing ==
  /\ pc = "loop"
  /\ ~(input_end = 0 /\ ok = 1)
  /\ \E wfail \in BOOLEAN : ok' = IF wfail THEN 0 ELSE ok
  /\ heap' = Free(heap, {"ringbuffer"})
  /\ pc' = "returned"
  /\ UNCHANGED << input_end, dataVars, hdr_i, nmeta, exceptRelease >>

NextRelease ==
  \/ AllocateRing
  \/ BeginMetaBlock
  \/ ReadBlockTrees
  \/ ReadContextModes
  \/ DecodeContextMaps
  \/ DecodeTreeGroups
  \/ RunCommands
  \/ ReleaseMetaBlock
  \/ ReleaseRing

SpecRelease == Init /\ [][NextRelease]_vars

----------------------------------------------------------------------------
(* A fourth specification: the move-to-front transforms of a byte vector.  *)

\* uint8_t mtf[256]
kMtfSize == 256
kMinWindowBits == 16
kDistanceContextBits == 2
kNumBlockLengthCodes == 26
kDefaultCodeLength == 8
kCodeLengthLiterals == 16
kCodeLengthRepeatCode == 16

\* The byte values the vectors are made of.
MtfValues == {0, 1, 2, kMtfSize - 1}

\* A move to front that exchanges the two entries instead of shifting.
MoveToFrontBySwap(m, index) ==
  [k \in DOMAIN m |-> IF k = 0 THEN m[index]
                      ELSE IF k = index THEN m[0] ELSE m[k]]

\* MoveToFront, lines 402-407.
MoveToFront(m, index) ==
  [k \in DOMAIN m |-> IF k = 0 THEN m[index]
                      ELSE IF k <= index THEN m[k - 1] ELSE m[k]]

RECURSIVE InverseMtfLoop(_, _, _, _)
\* Lines 415-419: the loop of InverseMoveToFrontTransform from index n on.
InverseMtfLoop(vec, mtf, n, v_len) ==
  IF n < v_len
    THEN LET index == vec[n]
         IN InverseMtfLoop([vec EXCEPT ![n] = mtf[index]],
                          IF index # 0 THEN MoveToFront(mtf, index) ELSE mtf,
                          n + 1, v_len)
    ELSE vec

\* InverseMoveToFrontTransform, lines 409-420.
InverseMoveToFrontTransform(vec, v_len) ==
  InverseMtfLoop(vec, [k \in 0 .. (kMtfSize - 1) |-> k], 0, v_len)

\* The forward transform (the encoder's): each value is replaced by its
\* current index in a list that starts as the identity, and is then moved to
\* the front of the list.
IndexInList(list, value) == CHOOSE k \in DOMAIN list : list[k] = value

ShiftToFront(list, index) ==
  [k \in DOMAIN list |-> IF k = 0 THEN list[index]
                         ELSE IF k <= index THEN list[k - 1] ELSE list[k]]

RECURSIVE ForwardMtfLoop(_, _, _, _)
ForwardMtfLoop(vec, list, n, v_len) ==
  IF n < v_len
    THEN LET index == IndexInList(list, vec[n])
         IN ForwardMtfLoop([vec EXCEPT ![n] = index],
                          ShiftToFront(list, index), n + 1, v_len)
    ELSE vec

ForwardMoveToFrontTransform(vec, v_len) ==
  ForwardMtfLoop(vec, [k \in 0 .. (kMtfSize - 1) |-> k], 0, v_len)

VectorLen(vec) == Cardinality(DOMAIN vec)

InitMtf ==
  /\ CoreIdle
  /\ IdleExceptMtf
  /\ \E n \in 1 .. MaxVectorLen : v \in [0 .. (n - 1) -> MtfValues]
  /\ v_orig = v
  /\ mtf_stage = "plain"

\* The encoder's side: the forward transform of the vector.
EncodeVector ==
  /\ mtf_stage = "plain"
  /\ v' = ForwardMoveToFrontTransform(v, VectorLen(v))
  /\ mtf_stage' = "encoded"
  /\ UNCHANGED << coreVars, exceptMtf, v_orig >>

\* Line 513: InverseMoveToFrontTransform on the vector.
DecodeVector ==
  /\ mtf_stage = "encoded"
  /\ v' = InverseMoveToFrontTransform(v, VectorLen(v))
  /\ mtf_stage' = "decoded"
  /\ UNCHANGED << coreVars, exceptMtf, v_orig >>

NextMtf == EncodeVector \/ DecodeVector

SpecMtf == InitMtf /\ [][NextMtf]_vars

----------------------------------------------------------------------------
(* A fifth specification: the block types of one meta-block.  It starts    *)
(* after the header's loop over the three categories (lines 723-740) and   *)
(* takes block switches (DecodeBlockType) in the categories whose block    *)
(* types the header announced, with every type code the category's tree    *)
(* of num_block_types + 2 symbols can yield.                               *)

\* Line 732 reads num_block_types[i] from 8 bits plus 1; the model draws it
\* from 1 .. MaxBlockTypes.
BlockTypeCounts == 1 .. MaxBlockTypes

\* Line 737: the block type tree has num_block_types + 2 symbols.
TypeCodes(num_types) == 0 .. (num_types + 1)

\* Lines 524-525: a category's two ring entries and its index.
TypeRingSlot(t, index) == 2 * t + (index % 2)

\* The block switches made in category k: the index starts at 1 (line 735)
\* and each switch adds one (line 537).
SwitchesIn(k) ==
  IF block_type_rb_index[k] = 0 THEN 0 ELSE block_type_rb_index[k] - 1

SwitchesMade == SwitchesIn(0) + SwitchesIn(1) + SwitchesIn(2)

DecodeBlockTypeSameSlot(rb, index, t, code) ==
  IF code = 0 THEN rb[TypeRingSlot(t, SizeT(index - 1))]
  ELSE IF code = 1 THEN rb[TypeRingSlot(t, SizeT(index - 1))] + 1
  ELSE code - 2

\* Lines 527-534: the block type a type code selects.
DecodeBlockType(rb, index, t, code) ==
  IF code = 0 THEN rb[TypeRingSlot(t, index)]
  ELSE IF code = 1 THEN rb[TypeRingSlot(t, SizeT(index - 1))] + 1
  ELSE code - 2

\* Lines 677-681 and 723-740 without their failure exits: each category
\* either announces block types (index 1, a count read from the stream) or
\* does not (index 0, one type).
InitBlockType ==
  /\ CoreIdle
  /\ IdleExceptBlock
  /\ num_block_types \in [0 .. 2 -> BlockTypeCounts]
  /\ block_type_rb_index \in [0 .. 2 -> {0, 1}]
  /\ \A k \in 0 .. 2 : block_type_rb_index[k] = 0 => num_block_types[k] = 1
  /\ block_type = [k \in 0 .. 2 |-> 0]
  /\ block_type_rb = [k \in 0 .. 5 |-> k % 2]
  /\ tree_type = 0
  /\ type_code = 0
  /\ prev_block_type = [k \in 0 .. 2 |-> 0]

\* Lines 518-538, called at lines 809, 827 and 862 when a category's block
\* length has run out.
SwitchBlockType ==
  /\ SwitchesMade < MaxSwitches
  /\ \E t \in 0 .. 2 :
       /\ block_type_rb_index[t] >= 1
       /\ \E code \in TypeCodes(num_block_types[t]) :
            LET new_type == DecodeBlockType(block_type_rb,
                                            block_type_rb_index[t], t, code)
            IN /\ block_type' = [block_type EXCEPT ![t] = new_type]
               /\ block_type_rb' =
                    [block_type_rb EXCEPT
                       ![TypeRingSlot(t, block_type_rb_index[t])] = new_type]
               /\ block_type_rb_index' =
                    [block_type_rb_index EXCEPT ![t] = SizeT(@ + 1)]
               /\ tree_type' = t
               /\ type_code' = code
               /\ prev_block_type' = [prev_block_type EXCEPT ![t] = block_type[t]]
  /\ UNCHANGED << coreVars, exceptBlock, num_block_types >>

NextBlockType == SwitchBlockType

SpecBlockType == InitBlockType /\ [][NextBlockType]_vars

----------------------------------------------------------------------------
(* A sixth specification: the distance ring over a sequence of commands.   *)
(* Each command resolves a distance code with TranslateShortCodes and      *)
(* pushes the distance as lines 882-886 do; the codes are all the short    *)
(* codes and the first two codes after them.                               *)

\* ReadCopyDistance (lines 326-347) and the implicit code 0 (line 387).
ResolvedCodes == 0 .. (NUM_DISTANCE_SHORT_CODES + 1)

\* Lines 880-893: the distance of one command and its push.  A negative
\* distance is beyond every max_distance as a size_t (line 894) and ends
\* the decode.
ResolveDistance ==
  /\ ok = 1
  /\ ncmds < MaxDistanceCommands
  /\ \E code \in ResolvedCodes :
       LET dist == TranslateShortCodes(code, dist_rb, dist_rb_idx)
           pushed == PushDistance(dist_rb, dist_rb_idx, code, dist)
       IN /\ distance_code' = code
          /\ distance' = dist
          /\ dist_rb' = pushed.rb
          /\ dist_rb_idx' = pushed.idx
          /\ dist_history' = IF code > 0 THEN << dist >> \o dist_history
                                         ELSE dist_history
          /\ ok' = IF dist < 0 THEN 0 ELSE 1
  /\ ncmds' = ncmds + 1
  /\ UNCHANGED << pc, decoded_size, input_size_bits, input_end, window_bits,
                  pos, ringbuffer, prev_byte1, prev_byte2, meta_block_len,
                  meta_block_end_pos, insert_length, copy_length, j, output,
                  produced, written, meta_start, last_copy, read_unwritten >>
  /\ UNCHANGED exceptDist

NextDistance == ResolveDistance

SpecDistance == Init /\ [][NextDistance]_vars

----------------------------------------------------------------------------
(* A seventh specification: the window size of the stream header, with     *)
(* the code's own numbers.  It takes lines 643-663 from the entry state    *)
(* for advertised sizes around the powers of two, both values of the       *)
(* window flag and every value of the three bits after it.                 *)

\* DecodeSize (lines 66-77): no size (-1), 0, and sizes of up to 4 bytes
\* next to a power of two.
HeaderSizes ==
  {-1, 0} \cup {Pow2(k) + d : k \in {0, 8, 15, 16, 17, 20, 24, 30},
                             d \in {-1, 0, 1}}

\* Line 659: the condition under which BrotliReadBits(&br, 1) is evaluated.
WindowFlagIsRead(size, size_bits) == size < 0 \/ size_bits > kMinWindowBits

\* Lines 659-663.
HeaderWindowBits(size, size_bits, flag, extra) ==
  IF WindowFlagIsRead(size, size_bits) /\ flag = 1
    THEN kMinWindowBits + 1 + extra
    ELSE kMinWindowBits

\* Lines 643-663: the advertised size, input_size_bits and window_bits.
ReadStreamHeader ==
  /\ pc = "entry"
  /\ \E size \in HeaderSizes, flag \in {0, 1}, extra \in 0 .. 7 :
       /\ decoded_size' = size
       /\ IF size = 0
            THEN /\ pc' = "returned"
                 /\ UNCHANGED << input_size_bits, window_bits, windowVars >>
            ELSE LET size_bits == InputSizeBits(size)
                     read == WindowFlagIsRead(size, size_bits)
                 IN /\ pc' = "window"
                    /\ input_size_bits' = size_bits
                    /\ window_bits' = HeaderWindowBits(size, size_bits, flag, extra)
                    /\ window_flag' = IF read THEN flag ELSE -1
                    /\ window_extra' = IF read /\ flag = 1 THEN extra ELSE -1
  /\ UNCHANGED << ok, input_end, pos, ringbuffer, dist_rb, dist_rb_idx,
                  prev_byte1, prev_byte2, meta_block_len, meta_block_end_pos,
                  insert_length, copy_length, distance_code, distance, j,
                  output, produced, written, meta_start, last_copy,
                  read_unwritten, ncmds >>
  /\ UNCHANGED exceptWindow

NextWindow == ReadStreamHeader

SpecWindow == Init /\ [][NextWindow]_vars

----------------------------------------------------------------------------
(* An eighth specification: DecodeContextMap on a distance context map of  *)
(* one block type.  The symbols of the map's Huffman code are drawn from   *)
(* the code's alphabet, num_htrees + max_run_length_prefix symbols.  A     *)
(* store past the end of the map's block is undefined: it lands beyond     *)
(* the map's entries and either goes unnoticed or stops the process.       *)

\* Line 770: context_map_size for one distance block type.
MapSizes == {Pow2(kDistanceContextBits)}

\* Line 464: *num_htrees, here up to MaxHTrees.
HTreeCounts == 1 .. MaxHTrees

\* Lines 477-482: max_run_length_prefix, 0 without run lengths.
RunLengthPrefixes == 0 .. MaxRunLengthPrefix

\* Line 483: the alphabet of the map's Huffman code.
MapCodes(htrees, max_run) == 0 .. (htrees + max_run - 1)

\* Line 469: the block malloc returns.
MallocMap(size) == [k \in 0 .. (size - 1) |-> Indeterminate]

\* Line 471: memset(*context_map, 0, context_map_size).
ZeroMap(size) == [k \in 0 .. (size - 1) |-> 0]

\* Line 499: reps - 1, the number of stores of the loop of lines 500-503.
RunOfZeros(code, extra) == Pow2(code) + extra

\* A map entry that keeps the run length symbols' offset.
MapEntryOfCodeUnshifted(code, max_run) == code % kMtfSize

\* Line 505: the uint8_t stored for a symbol above the run length symbols.
MapEntryOfCode(code, max_run) == (code - max_run) % kMtfSize

\* Lines 492-507: the stores of one symbol, count entries of value from
\* index first on; a store at an index >= context_map_size does not change
\* an entry of the map.
StoreEntries(m, first, count, value) ==
  [k \in DOMAIN m |-> IF k >= first /\ k < first + count THEN value ELSE m[k]]

\* The stores among them that fall at an index >= size.
StoresPastEnd(size, first, count) ==
  IF first + count > size THEN first + count - size ELSE 0

\* The entries from the start of the map that hold a stored value.
StoredPrefix(m, size) ==
  CHOOSE n \in 0 .. size :
    /\ \A k \in 0 .. (n - 1) : m[k] # Indeterminate
    /\ n < size => m[n] = Indeterminate

\* Line 513: InverseMoveToFrontTransform on the map; what it makes of an
\* entry never stored, and of every entry after it, is indeterminate.
InverseMtfOfMap(m, size) ==
  LET n == StoredPrefix(m, size)
      moved == InverseMoveToFrontTransform(m, n)
  IN [k \in DOMAIN m |-> IF k < n THEN moved[k] ELSE Indeterminate]

\* A call of DecodeContextMap (line 770).
InitContextMap ==
  /\ CoreIdle
  /\ IdleExceptMap
  /\ map_stage = "call"
  /\ map_ok = 1
  /\ context_map_size \in MapSizes
  /\ num_htrees = 0
  /\ context_map = << >>
  /\ max_run_length_prefix = 0
  /\ map_i = 0
  /\ map_run = 0
  /\ map_overrun = 0
  /\ map_mtf = FALSE

\* Lines 459-486: the header of the map.
MapHeader ==
  /\ map_stage = "call"
  /\ \E eof \in BOOLEAN, htrees \in HTreeCounts, max_run \in RunLengthPrefixes,
        tree_ok \in BOOLEAN :
       IF eof
         THEN /\ map_stage' = "returned"
              /\ map_ok' = 0
              /\ UNCHANGED << num_htrees, context_map, max_run_length_prefix >>
         ELSE /\ num_htrees' = htrees
              /\ IF htrees <= 1
                   THEN /\ context_map' = ZeroMap(context_map_size)
                        /\ map_stage' = "returned"
                        /\ map_ok' = 1
                        /\ UNCHANGED max_run_length_prefix
                   ELSE /\ context_map' = MallocMap(context_map_size)
                        /\ max_run_length_prefix' = max_run
                        /\ IF tree_ok
                             THEN map_stage' = "symbols" /\ map_ok' = 1
                             ELSE map_stage' = "returned" /\ map_ok' = 0
  /\ UNCHANGED << context_map_size, map_i, map_run, map_overrun, map_mtf >>
  /\ UNCHANGED << coreVars, exceptMap >>

\* Lines 487-508: one turn of the loop over the map's symbols.
MapSymbol ==
  /\ map_stage = "symbols"
  /\ \E eof \in BOOLEAN,
        code \in MapCodes(num_htrees, max_run_length_prefix),
        halted \in BOOLEAN :
       IF eof
         THEN /\ map_ok' = 0
              /\ map_stage' = "End"
              /\ UNCHANGED << context_map, map_i, map_run, map_overrun >>
         ELSE \E extra \in 0 .. (Pow2(code) - 1) :
              LET is_run == code # 0 /\ code <= max_run_length_prefix
                  count == IF is_run THEN RunOfZeros(code, extra) ELSE 1
                  value == IF code = 0 \/ is_run
                             THEN 0
                             ELSE MapEntryOfCode(code, max_run_length_prefix)
                  past == StoresPastEnd(context_map_size, map_i, count)
              IN /\ is_run \/ extra = 0
                 /\ past = 0 => ~halted
                 /\ context_map' = StoreEntries(context_map, map_i, count, value)
                 /\ map_i' = map_i + count
                 /\ map_run' = IF is_run THEN count ELSE 0
                 /\ map_overrun' = map_overrun + past
                 /\ map_ok' = map_ok
                 /\ map_stage' = IF halted THEN "halted"
                                 ELSE IF map_i + count < context_map_size
                                        THEN "symbols"
                                        ELSE "End"
  /\ UNCHANGED << context_map_size, num_htrees, max_run_length_prefix, map_mtf >>
  /\ UNCHANGED << coreVars, exceptMap >>

\* Lines 509-515: the tree's release, the inverse move-to-front step, the
\* return.
MapEnd ==
  /\ map_stage = "End"
  /\ \E bit \in {0, 1} :
       /\ map_mtf' = (bit = 1)
       /\ context_map' = IF bit = 1
                           THEN InverseMtfOfMap(context_map, context_map_size)
                           ELSE context_map
  /\ map_stage' = "returned"
  /\ UNCHANGED << map_ok, context_map_size, num_htrees, max_run_length_prefix,
                  map_i, map_run, map_overrun >>
  /\ UNCHANGED << coreVars, exceptMap >>

NextContextMap == MapHeader \/ MapSymbol \/ MapEnd

SpecContextMap == InitContextMap /\ [][NextContextMap]_vars

----------------------------------------------------------------------------
(* A ninth specification: the simple-code branch of ReadHuffmanCode (lines *)
(* 248-280).  The symbols are read with max_bits bits each, so they range  *)
(* over 0 .. 2^max_bits - 1 whatever the alphabet's size; the model draws  *)
(* the smallest of them, the alphabet's last symbol, the first value past  *)
(* the alphabet and the largest value of max_bits bits.  A store past the  *)
(* end of code_lengths is undefined: it lands beyond the block's entries   *)
(* and either goes unnoticed or stops the process.                         *)

\* The alphabets: num_block_types + 2 for one block type (line 733), a
\* size between two powers of two, and kNumBlockLengthCodes (line 730).
AlphabetSizes == {3, 6, kNumBlockLengthCodes}

\* Lines 250-257: the bits of one symbol.
MaxBitsOf(size) == BitLength(size - 1)

\* Line 259: BrotliReadBits(br, max_bits).
SymbolsRead(size, bits) ==
  {0, 1, 2, size - 1, size, Pow2(bits) - 1} \cap (0 .. (Pow2(bits) - 1))

\* Line 234: the block BrotliSafeMalloc returns.
MallocCodeLengths(size) == [k \in 0 .. (size - 1) |-> Indeterminate]

\* code_lengths[index] = len (lines 260-276); a store at an index >=
\* alphabet_size does not change an entry of the block.
StoreCodeLength(lengths, size, index, len) ==
  IF index < size THEN [lengths EXCEPT ![index] = len] ELSE lengths

\* The stores among these indexes that fall at an index >= size.
StoresPastAlphabet(size, indexes) ==
  Cardinality({k \in DOMAIN indexes : indexes[k] >= size})

\* Lines 263-279 with the lengths of symbols[1] and symbols[2] exchanged.
SimpleCodeLengthsSwapped(lengths, size, syms, count, bit) ==
  LET first == StoreCodeLength(lengths, size, syms[0], 1)
  IN IF count = 2 THEN StoreCodeLength(first, size, syms[1], 1)
     ELSE IF count = 4
       THEN IF bit = 1
              THEN StoreCodeLength(
                     StoreCodeLength(first, size, syms[1], 3), size, syms[3], 3)
              ELSE StoreCodeLength(first, size, syms[0], 2)
       ELSE first

\* Lines 263-279: the lengths after the loop that stored 2 for each symbol.
SimpleCodeLengths(lengths, size, syms, count, bit) ==
  LET first == StoreCodeLength(lengths, size, syms[0], 1)
  IN IF count = 2 THEN StoreCodeLength(first, size, syms[1], 1)
     ELSE IF count = 4
       THEN IF bit = 1
              THEN StoreCodeLength(
                     StoreCodeLength(first, size, syms[2], 3), size, syms[3], 3)
              ELSE StoreCodeLength(first, size, syms[0], 2)
       ELSE first

\* The indexes lines 263-279 store at.
SimpleCodeStores(syms, count, bit) ==
  IF count = 2 THEN << syms[0], syms[1] >>
  ELSE IF count = 4
    THEN IF bit = 1 THEN << syms[0], syms[2], syms[3] >>
                    ELSE << syms[0], syms[0] >>
    ELSE << syms[0] >>

\* A call of ReadHuffmanCode, after its malloc (lines 229-239).
InitSimpleCode ==
  /\ CoreIdle
  /\ IdleExceptHuff
  /\ hc_stage = "call"
  /\ alphabet_size \in AlphabetSizes
  /\ code_lengths = MallocCodeLengths(alphabet_size)
  /\ num_symbols = 0
  /\ max_bits = 0
  /\ symbols = [k \in 0 .. 3 |-> 0]
  /\ hc_i = 0
  /\ tree_select = -1
  /\ hc_overrun = 0
  /\ symbol = 0
  /\ max_symbol = 0
  /\ prev_code_len = 0
  /\ code_len = 0
  /\ lengths_decoded = << >>
  /\ max_symbol_limit = 0

\* Lines 240-257 with simple_code = 1: num_symbols, max_bits, the memset.
SimpleCodeHeader ==
  /\ hc_stage = "call"
  /\ \E eof \in BOOLEAN, count \in 1 .. 4 :
       IF eof
         THEN /\ hc_stage' = "failed"
              /\ UNCHANGED << code_lengths, num_symbols, max_bits >>
         ELSE /\ hc_stage' = "symbols"
              /\ num_symbols' = count
              /\ max_bits' = MaxBitsOf(alphabet_size)
              /\ code_lengths' = [k \in 0 .. (alphabet_size - 1) |-> 0]
  /\ UNCHANGED << alphabet_size, symbols, hc_i, tree_select, hc_overrun,
                  symbol, max_symbol, prev_code_len, code_len,
                  lengths_decoded, max_symbol_limit >>
  /\ UNCHANGED << coreVars, exceptHuff >>

\* Lines 258-261: one turn of the loop over the symbols.
SimpleCodeSymbol ==
  /\ hc_stage = "symbols"
  /\ hc_i < num_symbols
  /\ \E sym \in SymbolsRead(alphabet_size, max_bits), halted \in BOOLEAN :
       /\ sym < alphabet_size => ~halted
       /\ symbols' = [symbols EXCEPT ![hc_i] = sym]
       /\ code_lengths' = StoreCodeLength(code_lengths, alphabet_size, sym, 2)
       /\ hc_overrun' = hc_overrun + StoresPastAlphabet(alphabet_size, << sym >>)
       /\ hc_stage' = IF halted THEN "halted" ELSE "symbols"
  /\ hc_i' = hc_i + 1
  /\ UNCHANGED << alphabet_size, num_symbols, max_bits, tree_select, symbol,
                  max_symbol, prev_code_len, code_len, lengths_decoded, max_symbol_limit >>
  /\ UNCHANGED << coreVars, exceptHuff >>

\* Lines 262-279: the lengths of the symbols by their number.
SimpleCodeAssign ==
  /\ hc_stage = "symbols"
  /\ ~(hc_i < num_symbols)
  /\ \E bit \in {0, 1}, halted \in BOOLEAN :
       LET stores == SimpleCodeStores(symbols, num_symbols, bit)
           past == StoresPastAlphabet(alphabet_size, stores)
       IN /\ num_symbols # 4 => bit = 0
          /\ past = 0 => ~halted
          /\ tree_select' = IF num_symbols = 4 THEN bit ELSE -1
          /\ code_lengths' = SimpleCodeLengths(code_lengths, alphabet_size,
                                               symbols, num_symbols, bit)
          /\ hc_overrun' = hc_overrun + past
          /\ hc_stage' = IF halted THEN "halted" ELSE "lengths"
  /\ UNCHANGED << alphabet_size, num_symbols, max_bits, symbols, hc_i, symbol,
                  max_symbol, prev_code_len, code_len, lengths_decoded, max_symbol_limit >>
  /\ UNCHANGED << coreVars, exceptHuff >>

\* Lines 314-323: BrotliHuffmanTreeBuildImplicit on the lengths, free,
\* return.
BuildTree ==
  /\ hc_stage = "lengths"
  /\ \E built \in BOOLEAN : hc_stage' = IF built THEN "built" ELSE "failed"
  /\ UNCHANGED << alphabet_size, code_lengths, num_symbols, max_bits, symbols,
                  hc_i, tree_select, hc_overrun, symbol, max_symbol,
                  prev_code_len, code_len, lengths_decoded, max_symbol_limit >>
  /\ UNCHANGED << coreVars, exceptHuff >>

NextSimpleCode ==
  SimpleCodeHeader \/ SimpleCodeSymbol \/ SimpleCodeAssign \/ BuildTree

SpecSimpleCode == InitSimpleCode /\ [][NextSimpleCode]_vars

----------------------------------------------------------------------------
(* A tenth specification: ReadHuffmanCodeLengths (lines 151-222) on small  *)
(* alphabets.  The code length symbols are drawn from the zero length, a   *)
(* non-zero length and the three repeat codes.                             *)

kCodeLengthRepeatOffsets == << 3, 3, 11 >>

\* The num_symbols of line 151 (the alphabet_size of line 311).
CodedAlphabetSizes == {3, 6}

\* Line 175: max_symbol = 2 + BrotliReadBits(br, length_nbits).
MaxSymbolsRead(size) == {2, 3, size, size + 1}

\* Line 195: the symbols of the code length code the model decodes.
CodeLengthSymbols == {0, 3, 16, 17, 18}

\* Line 208: the extra bits of a repeat the model reads (at least 2 bits,
\* line 43).
RepeatExtras == {0, 1}

\* A count that zero lengths leave alone.
MaxSymbolAfterNonZero(limit, code) == IF code = 0 THEN limit ELSE limit - 1

\* Line 189: max_symbol-- before a symbol is decoded.
MaxSymbolAfter(limit, code) == limit - 1

\* Lines 203-208: the number of entries a repeat code stores.
RepeatCount(code, extra) ==
  extra + kCodeLengthRepeatOffsets[code - kCodeLengthLiterals + 1]

\* Line 207: the length a repeat code stores.
RepeatLength(code, prev) == IF code = kCodeLengthRepeatCode THEN prev ELSE 0

\* Lines 199 and 214-216: count entries of length len from index first on.
StoreLengths(lengths, first, count, len) ==
  [k \in DOMAIN lengths |->
     IF k >= first /\ k < first + count THEN len ELSE lengths[k]]

\* Line 219: the entries from index first on set to 0.
ZeroFrom(lengths, first) ==
  [k \in DOMAIN lengths |-> IF k >= first THEN 0 ELSE lengths[k]]

\* A call of ReadHuffmanCodeLengths (line 311) on the block of line 234.
InitCodeLengths ==
  /\ CoreIdle
  /\ IdleExceptHuff
  /\ hc_stage = "lengths_call"
  /\ alphabet_size \in CodedAlphabetSizes
  /\ code_lengths = MallocCodeLengths(alphabet_size)
  /\ num_symbols = 0
  /\ max_bits = 0
  /\ symbols = [k \in 0 .. 3 |-> 0]
  /\ hc_i = 0
  /\ tree_select = -1
  /\ hc_overrun = 0
  /\ symbol = 0
  /\ max_symbol = 0
  /\ prev_code_len = kDefaultCodeLength
  /\ code_len = 0
  /\ lengths_decoded = << >>
  /\ max_symbol_limit = 0

\* Lines 160-186: the code length tree and max_symbol.
CodeLengthsHeader ==
  /\ hc_stage = "lengths_call"
  /\ \E tree_ok \in BOOLEAN, eof \in BOOLEAN, limited \in BOOLEAN,
        limit \in MaxSymbolsRead(alphabet_size) :
       IF ~tree_ok \/ eof \/ (limited /\ limit > alphabet_size)
         THEN /\ hc_stage' = "failed"
              /\ UNCHANGED << max_symbol, max_symbol_limit >>
         ELSE /\ hc_stage' = "lengths_loop"
              /\ max_symbol' = IF limited THEN limit ELSE alphabet_size
              /\ max_symbol_limit' = max_symbol'
  /\ UNCHANGED << alphabet_size, code_lengths, num_symbols, max_bits, symbols,
                  hc_i, tree_select, hc_overrun, symbol, prev_code_len,
                  code_len, lengths_decoded >>
  /\ UNCHANGED << coreVars, exceptHuff >>

\* Lines 187-217: one turn of the loop that decodes a symbol.
CodeLengthSymbol ==
  /\ hc_stage = "lengths_loop"
  /\ symbol < alphabet_size
  /\ max_symbol # 0
  /\ \E eof \in BOOLEAN, code \in CodeLengthSymbols, extra \in RepeatExtras :
       IF eof
         THEN /\ hc_stage' = "failed"
              /\ max_symbol' = max_symbol - 1
              /\ UNCHANGED << code_lengths, symbol, prev_code_len, code_len,
                              lengths_decoded >>
         ELSE /\ max_symbol' = MaxSymbolAfter(max_symbol, code)
              /\ code_len' = code
              /\ lengths_decoded' = Append(lengths_decoded, code)
              /\ IF code < kCodeLengthLiterals
                   THEN /\ extra = 0
                        /\ code_lengths' = StoreLengths(code_lengths, symbol, 1, code)
                        /\ symbol' = symbol + 1
                        /\ prev_code_len' = IF code # 0 THEN code ELSE prev_code_len
                        /\ hc_stage' = hc_stage
                   ELSE LET repeat == RepeatCount(code, extra)
                        IN /\ UNCHANGED prev_code_len
                           /\ IF symbol + repeat > alphabet_size
                                THEN /\ hc_stage' = "failed"
                                     /\ UNCHANGED << code_lengths, symbol >>
                                ELSE /\ hc_stage' = hc_stage
                                     /\ code_lengths' =
                                          StoreLengths(code_lengths, symbol, repeat,
                                                       RepeatLength(code, prev_code_len))
                                     /\ symbol' = symbol + repeat
  /\ UNCHANGED << alphabet_size, num_symbols, max_bits, symbols, hc_i,
                  tree_select, hc_overrun, max_symbol_limit >>
  /\ UNCHANGED << coreVars, exceptHuff >>

\* Lines 187-189 and 219-222: the loop ends, at the alphabet's end or by
\* the break on max_symbol; the entries left are set to 0.
CodeLengthsStop ==
  /\ hc_stage = "lengths_loop"
  /\ ~(symbol < alphabet_size) \/ max_symbol = 0
  /\ max_symbol' = IF symbol < alphabet_size THEN max_symbol - 1 ELSE max_symbol
  /\ code_lengths' = ZeroFrom(code_lengths, symbol)
  /\ symbol' = alphabet_size
  /\ hc_stage' = "lengths"
  /\ UNCHANGED << alphabet_size, num_symbols, max_bits, symbols, hc_i,
                  tree_select, hc_overrun, prev_code_len, code_len,
                  lengths_decoded, max_symbol_limit >>
  /\ UNCHANGED << coreVars, exceptHuff >>

NextCodeLengths ==
  CodeLengthsHeader \/ CodeLengthSymbol \/ CodeLengthsStop \/ BuildTree

SpecCodeLengths == InitCodeLengths /\ [][NextCodeLengths]_vars

----------------------------------------------------------------------------
(* The three Huffman tree groups of one meta-block (0: literals, 1:         *)
(* insert-and-copy, 2: distances), tree by tree: HuffmanTreeGroupInit       *)
(* (lines 429-434), the decoding loop (lines 444-453 and 781-786) with      *)
(* every outcome of ReadHuffmanCode for every tree, and the release at End  *)
(* (lines 436-442 and 949-953).  malloc does not initialise the array of    *)
(* HuffmanTreeGroupInit: the root_ of a slot is indeterminate until a tree  *)
(* is built in it.  Releasing such a slot frees an indeterminate pointer,   *)
(* which is undefined: it goes unnoticed or stops the process.              *)

\* The trees of a group: num_literal_htrees, num_block_types[1] and
\* num_dist_htrees (lines 776-779) are each at least 1.
MaxGroupTrees == 2

\* HuffmanTreeGroupInit (lines 429-434).
HuffmanTreeGroupInit(ntrees) ==
  [num_htrees |-> ntrees,
   htrees |-> [t \in 0 .. ntrees - 1 |-> "indeterminate"]]

\* ReadHuffmanCode (lines 229-324) on slot t of a group: the tree is built,
\* or the build fails and leaves a tree to release, or the call fails
\* before BrotliHuffmanTreeBuildImplicit (lines 238, 242, 287) and leaves
\* the slot as it was.
SlotAfterRead(group, t, outcome) ==
  IF outcome = "untouched"
    THEN group
    ELSE [group EXCEPT !.htrees[t] = outcome]

\* The slots of a group that HuffmanTreeGroupRelease (lines 436-442) hands
\* to BrotliHuffmanTreeRelease.
ReleasedSlots(group) == 0 .. group.num_htrees - 1

\* Some slot that the release at End reaches was never built.
ReleasesIndeterminate(groups) ==
  \E g \in 0 .. 2 :
    \E t \in ReleasedSlots(groups[g]) : groups[g].htrees[t] = "indeterminate"

InitTreeGroups ==
  /\ CoreIdle
  /\ IdleExceptGroup
  /\ hgroup = NullGroups
  /\ group_stage = "header"
  /\ group_i = 0
  /\ tree_i = 0

\* Lines 710-773: the header fails before the groups are allocated.
GroupsHeaderFails ==
  /\ group_stage = "header"
  /\ group_stage' = "End"
  /\ UNCHANGED << hgroup, group_i, tree_i >>
  /\ UNCHANGED << coreVars, exceptGroup >>

\* Lines 776-779: the three arrays of trees.
GroupsInit ==
  /\ group_stage = "header"
  /\ \E ntrees \in [0 .. 2 -> 1 .. MaxGroupTrees] :
       hgroup' = [g \in 0 .. 2 |-> HuffmanTreeGroupInit(ntrees[g])]
  /\ group_stage' = "decode"
  /\ group_i' = 0
  /\ tree_i' = 0
  /\ UNCHANGED << coreVars, exceptGroup >>

\* Lines 444-453 and 781-786: ReadHuffmanCode for the next tree of the
\* group being decoded.
GroupDecodeTree ==
  /\ group_stage = "decode"
  /\ \E outcome \in TreeOutcomes :
       /\ hgroup' = [hgroup EXCEPT
                       ![group_i] = SlotAfterRead(@, tree_i, outcome)]
       /\ IF outcome # "built"
            THEN /\ group_stage' = "End"
                 /\ UNCHANGED << group_i, tree_i >>
            ELSE IF tree_i + 1 < hgroup[group_i].num_htrees
              THEN /\ tree_i' = tree_i + 1
                   /\ UNCHANGED << group_stage, group_i >>
              ELSE /\ tree_i' = 0
                   /\ group_i' = group_i + 1
                   /\ group_stage' =
                        IF group_i + 1 < 3 THEN "decode" ELSE "commands"
  /\ UNCHANGED << coreVars, exceptGroup >>

\* Lines 794-944: the command loop, to its end or to an error.
GroupsRunCommands ==
  /\ group_stage = "commands"
  /\ group_stage' = "End"
  /\ UNCHANGED << hgroup, group_i, tree_i >>
  /\ UNCHANGED << coreVars, exceptGroup >>

\* Lines 436-442 and 949-953: every slot of every group is released, then
\* the group's array is freed.
GroupsRelease ==
  /\ group_stage = "End"
  /\ \E noticed \in (IF ReleasesIndeterminate(hgroup)
                       THEN BOOLEAN ELSE {FALSE}) :
       IF noticed
         THEN group_stage' = "halted" /\ UNCHANGED hgroup
         ELSE /\ group_stage' = "released"
              /\ hgroup' = [g \in 0 .. 2 |->
                              [hgroup[g] EXCEPT
                                 !.htrees = [t \in DOMAIN @ |-> "freed"]]]
  /\ UNCHANGED << group_i, tree_i >>
  /\ UNCHANGED << coreVars, exceptGroup >>

NextTreeGroups ==
  \/ GroupsHeaderFails
  \/ GroupsInit
  \/ GroupDecodeTree
  \/ GroupsRunCommands
  \/ GroupsRelease

SpecTreeGroups == InitTreeGroups /\ [][NextTreeGroups]_vars

----------------------------------------------------------------------------
(* The claims. *)

Returned == pc = "returned"
Succeeded == pc = "returned" /\ ok = 1
IsPrefix(a, b) == Len(a) <= Len(b) /\ a = SubSeq(b, 1, Len(a))

\* C1: when the header advertises a decoded size n >= 0, a run that returns
\* success has written exactly n bytes to the output.
C1_SizeAdvertised ==
  (Succeeded /\ decoded_size >= 0) => Len(output) = decoded_size

\* C2: every copy that is executed has distance <= min(pos, max backward
\* distance), pos taken at the start of the copy; a command whose distance
\* exceeds that bound is refused and the decode fails.
C2_BackrefBound ==
  /\ last_copy.kind = "copied" =>
       last_copy.distance <= Min(last_copy.pos, max_backward_distance)
  /\ (last_copy.kind # "none"
        /\ last_copy.distance > Min(last_copy.pos, max_backward_distance)) =>
       (last_copy.kind = "rejected" /\ ok = 0)

\* C2's case: a copy was executed at the largest distance the window allows,
\* from a position that is at least that far into the output.
C2_Witness_Copied ==
  /\ last_copy.kind = "copied"
  /\ last_copy.distance = max_backward_distance
  /\ last_copy.pos >= max_backward_distance

\* C3: every copy that is executed has distance > 0; a resolved distance
\* <= 0 makes the decode fail.
C3_DistancePositive ==
  last_copy.kind = "copied" => last_copy.distance > 0

\* C4: in a decode that returns success, no byte of a copy was read from a
\* ring offset that had not been stored to earlier in the decode.
C4_CopyReadsWritten ==
  Succeeded => ~read_unwritten

\* C5: when the command loop of a meta-block ends without error, pos is the
\* position the meta-block began at plus meta_block_len.
C5_MetaBlockLength ==
  (pc = "End" /\ ok = 1) => pos = meta_start + meta_block_len

\* C6: until the return the output holds pos - (pos & ringbuffer_mask)
\* bytes, the output is always the first bytes produced, in order, and the
\* output of a successful decode is all pos bytes produced.
C6_OutputFlush ==
  /\ ~Returned => Len(output) = pos - Masked(pos)
  /\ Len(produced) = pos
  /\ IsPrefix(output, produced)
  /\ Succeeded => output = produced

\* C6's case: a successful decode whose ring wrapped, so that the ring was
\* written out at the wrap and the rest at the return.
C6_Witness_Wrapped ==
  /\ Succeeded
  /\ window_bits > 0
  /\ Len(output) > ringbuffer_size
  /\ Masked(pos) > 0

\* C7: a command with distance_code > 0 stores the resolved distance at
\* dist_rb[(dist_rb_idx - 1) & 3] (the new index) and advances dist_rb_idx by
\* one, leaving the other three entries; a command with distance_code = 0,
\* and every step that is not a distance resolution, leaves the distance
\* ring and its index unchanged.
C7_DistanceRing ==
  [][ IF pc = "copy" /\ distance_code > 0
        THEN /\ dist_rb_idx' = dist_rb_idx + 1
             /\ dist_rb'[(dist_rb_idx' - 1) % 4] = distance'
             /\ \A i \in 0 .. 3 :
                  i # (dist_rb_idx' - 1) % 4 => dist_rb'[i] = dist_rb[i]
        ELSE dist_rb' = dist_rb /\ dist_rb_idx' = dist_rb_idx ]_vars

\* C7's case: two commands pushed their distances, in two meta-blocks or
\* one, and a third reused the last distance without a push.
C7_Witness_PushedAndReused ==
  /\ dist_rb_idx = 2
  /\ ncmds = 3
  /\ distance_code = 0
  /\ last_copy.kind = "copied"
  /\ last_copy.distance = dist_rb[1]

\* C8: whenever a literal is about to be decoded with pos >= 2, prev_byte1
\* and prev_byte2 are the ring bytes at (pos - 1) and (pos - 2).
C8_PrevBytes ==
  (pc = "insert" /\ j < insert_length /\ pos >= 2) =>
     /\ prev_byte1 = ringbuffer[Masked(pos - 1)]
     /\ prev_byte2 = ringbuffer[Masked(pos - 2)]

\* C8's case: a literal is about to be decoded after the ring has wrapped
\* and a fast-path copy has run past the wrap.
C8_Witness_AfterWrapAndFastCopy ==
  /\ pc = "insert" /\ j < insert_length
  /\ pos > ringbuffer_size
  /\ last_copy.kind = "copied" /\ last_copy.fast
  /\ last_copy.pos >= ringbuffer_size

\* C9: a copy that takes the fast path, with distance >= 1, leaves at the
\* ring offsets of its copy_length bytes what the byte loop leaves there from
\* the same ring, and changes no byte at an offset below its destination.
C9_FastCopyAsByteLoop ==
  [][ (/\ pc = "copy"
       /\ last_copy'.kind = "copied"
       /\ distance' >= 1
       /\ FastPathGuard(Masked(pos - distance'), Masked(pos), copy_length))
      =>
      \A byteloop \in {SlowCopy(ringbuffer, pos, distance', copy_length,
                                 output, FALSE).ring} :
        \A i \in 0 .. (RingAlloc - 1) :
          /\ (i >= Masked(pos) /\ i < Masked(pos) + copy_length) =>
               ringbuffer'[i] = byteloop[i]
          /\ i < Masked(pos) => ringbuffer'[i] = ringbuffer[i] ]_vars

\* C9's case: a fast-path copy at a distance below 8 and a length above 16:
\* the pattern is expanded and then copied in blocks.
C9_Witness_PatternExpanded ==
  /\ last_copy.kind = "copied"
  /\ last_copy.fast
  /\ last_copy.distance \in 1 .. 7
  /\ last_copy.len > 16

\* C10: a copy that fails validation (distance beyond min(pos, max backward
\* distance), or pos + copy_length beyond the meta-block's end) makes the
\* decode fail and stores nothing: ring, pos and output are as before the
\* copy, no further command is decoded, and the output never holds a byte at
\* or after that pos.
C10_RejectedCopy ==
  /\ [][ (/\ pc = "copy"
          /\ \/ SizeT(distance') > Min(pos, max_backward_distance)
             \/ pos + copy_length > meta_block_end_pos)
         =>
         (/\ ok' = 0
          /\ pc' = "End"
          /\ ringbuffer' = ringbuffer
          /\ pos' = pos
          /\ output' = output) ]_vars
  /\ [](last_copy.kind = "rejected" =>
          /\ ok = 0
          /\ pc \in {"End", "loop", "returned"}
          /\ pos = last_copy.pos
          /\ Len(output) <= last_copy.pos)

\* C10's case: a copy at distance pos + 1 was refused and the decode has
\* returned, the bytes before the copy written out.
C10_Witness_Rejected ==
  /\ Returned
  /\ last_copy.kind = "rejected"
  /\ last_copy.distance = last_copy.pos + 1
  /\ last_copy.pos > 0
  /\ Len(output) = last_copy.pos

\* C11: once an error is detected (ok = 0), the decode takes no further
\* command, starts no further meta-block and makes no further Output write
\* before it returns, and it returns failure.
C11_ErrorPropagation ==
  [][ ok = 0 =>
        /\ ok' = 0
        /\ ncmds' = ncmds
        /\ pos' = pos
        /\ pc' \in {"End", "loop", "returned"}
        /\ output' = output ]_vars

\* C12: no block is ever released more often than it was allocated; when
\* a meta-block's End has run, every block of the meta-block that was
\* allocated has been released; and at a return that follows the ring
\* buffer's allocation every block, the ring buffer included, has been
\* released exactly as often as it was allocated.
C12_ReleasedOnce ==
  /\ \A r \in Resources : heap.released[r] <= heap.allocated[r]
  /\ pc = "loop" =>
       \A r \in PerMetaBlockResources :
         heap.released[r] = heap.allocated[r]
  /\ (Returned /\ heap.allocated["ringbuffer"] > 0) =>
       \A r \in Resources : heap.released[r] = heap.allocated[r]

\* C12's case: a failed decode has returned after two meta-blocks, the
\* second of which failed in the header with part of its blocks allocated.
C12_Witness_FailedInSecondHeader ==
  /\ Returned /\ ok = 0
  /\ heap.allocated["hgroup0"] = 1
  /\ heap.allocated["context_map"] = 2
  /\ heap.allocated["dist_context_map"] = 1
  /\ heap.allocated["block_len_tree2"] >= 1

C14_InverseMtfUndoesForward ==
  mtf_stage = "decoded" => v = v_orig

\* C14's case: a vector with a repeated value and the largest byte, which
\* the forward transform changed, has been through both transforms.
C14_Witness_RoundTrip ==
  /\ mtf_stage = "decoded"
  /\ v_orig = [k \in 0 .. 2 |-> << 2, kMtfSize - 1, 2 >>[k + 1]]
  /\ ForwardMoveToFrontTransform(v_orig, 3) # v_orig

\* A block switch: DecodeBlockType has advanced a category's ring index.
BlockSwitched == block_type_rb_index' # block_type_rb_index

\* C15: every category's current block type is below the category's number
\* of block types, and a switch with type code 1 selects the previous type
\* plus one, reduced modulo the number of block types.
C15_BlockTypeInRange ==
  /\ [](\A k \in 0 .. 2 : block_type[k] \in 0 .. (num_block_types[k] - 1))
  /\ [][ (BlockSwitched /\ type_code' = 1) =>
           block_type'[tree_type'] =
             (block_type[tree_type'] + 1) % num_block_types[tree_type'] ]_vars

\* C16: a category's type ring starts as [0, 1] with current type 0; after
\* the first switch it holds [0, new type]; once a switch has been made,
\* type code 0 selects the type that was current before the present one;
\* a type code of 2 or more selects the type code minus 2.
C16_TypeRing ==
  /\ [](\A k \in 0 .. 2 :
          /\ SwitchesIn(k) = 0 =>
               /\ block_type_rb[2 * k] = 0
               /\ block_type_rb[2 * k + 1] = 1
               /\ block_type[k] = 0
          /\ SwitchesIn(k) = 1 =>
               /\ block_type_rb[2 * k] = 0
               /\ block_type_rb[2 * k + 1] = block_type[k])
  /\ [][ BlockSwitched =>
           /\ (type_code' = 0 /\ SwitchesIn(tree_type') >= 1) =>
                block_type'[tree_type'] = prev_block_type[tree_type']
           /\ type_code' >= 2 =>
                block_type'[tree_type'] = type_code' - 2 ]_vars

\* C16's case: in the distance category the types 2 and 1 were selected by
\* their codes and a type code 0 has then gone back to type 2.
C16_Witness_BackToPrevious ==
  /\ SwitchesIn(2) = 3
  /\ tree_type = 2
  /\ type_code = 0
  /\ prev_block_type[2] = 1
  /\ block_type[2] = 2

\* The k-th most recently pushed distance (k from 1), where the history
\* before any push is 16, 15, 11, 4.
RecentDistance(k) ==
  IF k <= Len(dist_history)
    THEN dist_history[k]
    ELSE << 16, 15, 11, 4 >>[k - Len(dist_history)]

\* The offsets of the distance codes 4..9 and 10..15.
ShortCodeOffsets == << -1, 1, -2, 2, -3, 3 >>

\* C17: after any sequence of commands, distance codes 0..3 resolve to the
\* most recent to fourth most recent pushed distance, codes 4..9 to the
\* most recent one plus -1,+1,-2,+2,-3,+3, codes 10..15 to the second most
\* recent one plus the same offsets, and a code c >= 16 resolves to c - 15.
C17_ShortDistanceCodes ==
  /\ \A c \in 0 .. 3 :
       TranslateShortCodes(c, dist_rb, dist_rb_idx) = RecentDistance(c + 1)
  /\ \A c \in 4 .. 9 :
       TranslateShortCodes(c, dist_rb, dist_rb_idx) =
         RecentDistance(1) + ShortCodeOffsets[c - 3]
  /\ \A c \in 10 .. 15 :
       TranslateShortCodes(c, dist_rb, dist_rb_idx) =
         RecentDistance(2) + ShortCodeOffsets[c - 9]
  /\ \A c \in 16 .. 40 : TranslateShortCodes(c, dist_rb, dist_rb_idx) = c - 15

\* C17's case: three distances were pushed (2 by code 17, then 5 by code 9
\* and 4 by code 4, each relative to the one before), so the ring holds
\* them and one distance of the initial history, and the last command
\* reused the newest one.
C17_Witness_ThreePushes ==
  /\ dist_history = << 4, 5, 2 >>
  /\ distance_code = 0
  /\ distance = 4
  /\ ncmds = 4

\* The window part of the stream header has been decoded.
WindowDecoded == pc = "window"

\* What C18 says of window_bits: 17 plus the three bits when the flag was
\* read as 1, 16 otherwise, and so always in 16..24.
WindowBitsFollowFlag ==
  /\ window_bits = IF window_flag = 1 THEN 17 + window_extra ELSE 16
  /\ window_bits \in 16 .. 24

\* C18 as stated: the window flag is read exactly when decoded_size is
\* absent or its bit length is above 16, that is for every advertised size
\* from 65536 on and for none in 1..65535; window_bits follows the flag.
C18_FlagReadByBitLength ==
  WindowDecoded =>
    /\ window_flag # -1 <=> (decoded_size < 0 \/ BitLength(decoded_size) > 16)
    /\ decoded_size >= 65536 => window_flag # -1
    /\ decoded_size \in 1 .. 65535 => window_flag = -1
    /\ WindowBitsFollowFlag

\* C18, amended: the window flag is read exactly when decoded_size is
\* absent or greater than 65536, that is for every advertised size from
\* 65537 on and for none in 1..65536; window_bits follows the flag.
C18_FlagReadAbove65536 ==
  WindowDecoded =>
    /\ window_flag # -1 <=> (decoded_size < 0 \/ decoded_size > 65536)
    /\ decoded_size >= 65537 => window_flag # -1
    /\ decoded_size \in 1 .. 65536 => window_flag = -1
    /\ WindowBitsFollowFlag

\* C18's case: a stream that advertises 65536 bytes; no flag was read and
\* the window is 16 bits.
C18_Witness_Size65536 ==
  /\ WindowDecoded
  /\ decoded_size = 65536
  /\ input_size_bits = 16
  /\ window_flag = -1
  /\ window_bits = 16

\* DecodeContextMap has returned 1.
MapDecoded == map_stage = "returned" /\ map_ok = 1

\* C19: DecodeContextMap never stores a map entry at an index >=
\* context_map_size, and a run-of-zeros symbol that denotes more zeros than
\* there are entries left makes the decode fail.
C19_NoStorePastMapEnd ==
  /\ [](map_overrun = 0)
  /\ [][ (map_stage = "symbols" /\ map_run' > context_map_size - map_i) =>
           map_ok' = 0 ]_vars

\* C20: every entry of a context map that DecodeContextMap returned with
\* success is below num_htrees, with or without the inverse move-to-front
\* step.
C20_MapEntriesBelowNumHTrees ==
  MapDecoded =>
    \A k \in 0 .. (context_map_size - 1) :
      context_map[k] \in 0 .. (num_htrees - 1)

\* C20's case: a map of three trees decoded with run lengths and the
\* inverse move-to-front step, which names the last tree.
C20_Witness_MtfMapWithLastTree ==
  /\ MapDecoded
  /\ map_mtf
  /\ num_htrees = MaxHTrees
  /\ max_run_length_prefix > 0
  /\ map_overrun = 0
  /\ \E k \in 0 .. (context_map_size - 1) : context_map[k] = MaxHTrees - 1
  /\ \E k \in 0 .. (context_map_size - 1) : context_map[k] = 0

\* The code lengths are complete and go to the tree builder.
LengthsHandedOver == hc_stage = "lengths"

\* The symbols read are symbols of the alphabet and differ from each other.
DistinctSymbolsOfAlphabet ==
  /\ \A a \in 0 .. (num_symbols - 1) : symbols[a] < alphabet_size
  /\ \A a, b \in 0 .. (num_symbols - 1) : a # b => symbols[a] # symbols[b]

\* The lengths of the simple code, in symbol reading order.
SimpleCodeTable ==
  IF num_symbols = 1 THEN << 1 >>
  ELSE IF num_symbols = 2 THEN << 1, 1 >>
  ELSE IF num_symbols = 3 THEN << 1, 2, 2 >>
  ELSE IF tree_select = 0 THEN << 2, 2, 2, 2 >>
  ELSE << 1, 2, 3, 3 >>

\* C21: in the simple-code branch with pairwise distinct symbols of the
\* alphabet, the lengths handed to the tree builder are 1; 1,1; 1,2,2;
\* 2,2,2,2 (tree-select bit 0); 1,2,3,3 (tree-select bit 1) in symbol
\* reading order, and every other symbol of the alphabet has length 0.
C21_SimpleCodeLengths ==
  (LengthsHandedOver /\ DistinctSymbolsOfAlphabet) =>
    /\ \A a \in 0 .. (num_symbols - 1) :
         code_lengths[symbols[a]] = SimpleCodeTable[a + 1]
    /\ \A k \in 0 .. (alphabet_size - 1) :
         (\A a \in 0 .. (num_symbols - 1) : symbols[a] # k) =>
           code_lengths[k] = 0

\* C21's case: four distinct symbols of a six-symbol alphabet, read out of
\* order, with the tree-select bit set.
C21_Witness_FourSymbolsDeep ==
  /\ LengthsHandedOver
  /\ alphabet_size = 6
  /\ num_symbols = 4
  /\ tree_select = 1
  /\ symbols = [k \in 0 .. 3 |-> << 5, 0, 2, 1 >>[k + 1]]

\* C25: the simple-code branch never stores a code length at an index >=
\* alphabet_size.
C25_SimpleCodeStoresInAlphabet == hc_overrun = 0

\* The decoded code length symbols that are not the zero length.
RECURSIVE CountNonZero(_)
CountNonZero(seq) ==
  IF seq = << >> THEN 0
  ELSE (IF Head(seq) # 0 THEN 1 ELSE 0) + CountNonZero(Tail(seq))

\* ReadHuffmanCodeLengths is past its header.
DecodingLengths == hc_stage \in {"lengths_loop", "lengths"}

\* The loop of ReadHuffmanCodeLengths stops and the lengths are complete.
DecodingStops == hc_stage = "lengths_loop" /\ hc_stage' = "lengths"

\* The entries not written when decoding stops are 0, the others are kept.
UnwrittenEntriesZero ==
  \A k \in 0 .. (alphabet_size - 1) :
    code_lengths'[k] = IF k >= symbol THEN 0 ELSE code_lengths[k]

\* C22 as stated: decoding stops after max_symbol decoded symbols that are
\* non-zero lengths or repeat codes, zero lengths not counting; every entry
\* not written when decoding stops is 0.
C22_StopsAfterMaxSymbolNonZero ==
  /\ [](DecodingLengths => CountNonZero(lengths_decoded) <= max_symbol_limit)
  /\ [][ DecodingStops =>
           /\ \/ symbol = alphabet_size
              \/ CountNonZero(lengths_decoded) = max_symbol_limit
           /\ UnwrittenEntriesZero ]_vars

\* C22, amended: decoding stops after max_symbol decoded symbols of any
\* kind, zero lengths counting like the others; every entry not written
\* when decoding stops is 0.
C22_StopsAfterMaxSymbolDecoded ==
  /\ [](DecodingLengths => Len(lengths_decoded) <= max_symbol_limit)
  /\ [][ DecodingStops =>
           /\ \/ symbol = alphabet_size
              \/ Len(lengths_decoded) = max_symbol_limit
           /\ UnwrittenEntriesZero ]_vars

\* C22's case: with max_symbol = 2 a zero length and a length 3 were
\* decoded, and decoding has stopped with four entries left.
C22_Witness_ZeroCounted ==
  /\ hc_stage = "lengths"
  /\ alphabet_size = 6
  /\ max_symbol_limit = 2
  /\ lengths_decoded = << 0, 3 >>
  /\ code_lengths = [k \in 0 .. 5 |-> IF k = 1 THEN 3 ELSE 0]

\* C23: in the insert phase of a command no literal is written at a
\* position >= meta_block_end_pos: after every literal insert pos is at
\* most meta_block_end_pos.
C23_InsertWithinMetaBlock ==
  [][ (pc = "insert" /\ pos' # pos) =>
        /\ pos < meta_block_end_pos
        /\ pos' <= meta_block_end_pos ]_vars

\* An element of category k is the next thing the command loop consumes: a
\* literal (line 820), a command (line 794) or a distance (line 856).
ConsumesNext(k) ==
  CASE k = 0 -> pc = "insert" /\ j < insert_length
    [] k = 1 -> pc = "command" /\ pos < meta_block_end_pos
    [] k = 2 -> /\ pc = "insert" /\ ~(j < insert_length)
                /\ pos # meta_block_end_pos /\ distance_code < 0

\* C24: whenever a literal, a command or a distance is about to be consumed
\* and its category's block_length is 0, so that DecodeBlockType and
\* ReadBlockLength are invoked, the category's block-type and block-length
\* trees were built by the current meta-block's header; a category without
\* block types never gets there.
C24_SwitchOnlyWithTrees ==
  \A k \in 0 .. 2 : (ConsumesNext(k) /\ BlockEnds(k)) => HasBlockTrees(k)

\* C26: the cleanup at End releases only tree slots that were built (or
\* whose build was attempted): when HuffmanTreeGroupDecode fails part-way,
\* no slot that HuffmanTreeGroupInit allocated and no ReadHuffmanCode wrote
\* is handed to BrotliHuffmanTreeRelease.
C26_ReleaseOnlyBuiltTrees ==
  [][ (group_stage = "End" /\ group_stage' # "End") =>
        ~ReleasesIndeterminate(hgroup) ]_vars

\* The last command's copy took the fast path (lines 913-922).
FastCopied == last_copy.kind = "copied" /\ last_copy.fast

\* The ring offsets the last command's fast copy loaded from or stored to.
LastFastCopyOffsets ==
  FastCopyOffsets(Masked(last_copy.pos),
                  Masked(last_copy.pos - last_copy.distance),
                  last_copy.len, last_copy.distance)

\* C27: every byte the fast copy path reads or writes (the two 8-byte copies
\* and IncrementalCopyFastPath alike) lies at a ring offset below
\* ringbuffer_size + 16, inside the allocation of line 668, whenever the
\* guard of lines 913-914 let the copy take the fast path.
C27_FastCopyInsideAllocation ==
  FastCopied =>
    \A off \in LastFastCopyOffsets :
      0 <= off /\ off < ringbuffer_size + kRingBufferSlack

\* A fast copy that reaches into the slack: the second 8-byte copy of a
\* 2-byte copy loads from the last two offsets of the ring and thirteen
\* offsets after them.
C27_Witness_DeepestInSlack ==
  /\ FastCopied
  /\ ringbuffer_size + 13 \in LastFastCopyOffsets

====
